---- MODULE Spec2Model ----
(***************************************************************************)
(* Bug-triage assistant: the response parser, the keyword extractor, the   *)
(* triage run (index.ts main / processBugReport) and the evaluation        *)
(* harness (scripts/evaluate.ts main / generateReport).                    *)
(*                                                                         *)
(* Text is modelled as a sequence of one-character strings, so that the    *)
(* regular-expression passes of the source act on characters.              *)
(***************************************************************************)
EXTENDS Integers, Sequences, FiniteSets, TLC

(***************************************************************************)
(* Bounds of the model.                                                    *)
(***************************************************************************)
\* longest run of leading keyword-words put in front of a message
MaxRepeat == 9
\* number of free fragments appended to a message
MaxSegs == 2

(***************************************************************************)
(* Characters and strings.                                                 *)
(***************************************************************************)
Absent == "<absent>"

UpperChars == {"U", "T", "H", "E"}
LowerChars == {"a", "b", "e", "g", "h", "i", "l", "n", "o", "p", "r", "s", "t", "u", "x", "y"}
DigitChars == {"1"}
\* \w of a JavaScript regular expression without the u flag
WordChars == UpperChars \cup LowerChars \cup DigitChars \cup {"_"}
\* \s
SpaceChars == {" ", "\n"}

IsSpace(c) == c \in SpaceChars

\* String.prototype.toLowerCase on one character
LowerOf(c) ==
  CASE c = "U" -> "u"
    [] c = "T" -> "t"
    [] c = "H" -> "h"
    [] c = "E" -> "e"
    [] OTHER -> c

\* the TLA+ string spelled by a sequence of characters
RECURSIVE Str(_)
Str(s) == IF s = <<>> THEN "" ELSE Head(s) \o Str(Tail(s))

\* a call chained on the value of an expression: value.Op()
Then(value, Op(_)) == CHOOSE r \in {Op(v) : v \in {value}} : TRUE

\* s has the characters of lit at position i
HasAt(s, i, lit) ==
  /\ i + Len(lit) - 1 <= Len(s)
  /\ \A k \in 1..Len(lit) : s[i + k - 1] = lit[k]

\* end (exclusive) of the maximal run of characters of class cls starting at i
RECURSIVE RunEnd(_, _, _)
RunEnd(s, i, cls) ==
  IF i <= Len(s) /\ s[i] \in cls THEN RunEnd(s, i + 1, cls) ELSE i

\* end (exclusive) of the maximal run of characters outside class cls
RECURSIVE RunEndNot(_, _, _)
RunEndNot(s, i, cls) ==
  IF i <= Len(s) /\ s[i] \notin cls THEN RunEndNot(s, i + 1, cls) ELSE i

(***************************************************************************)
(* extractKeywords (triage.ts).                                            *)
(***************************************************************************)
\* position after a match of /<@[A-Z0-9]+>/ at i, or 0 when there is none
MentionEnd(s, i) ==
  IF HasAt(s, i, <<"<", "@">>)
  THEN LET e == RunEnd(s, i + 2, UpperChars \cup DigitChars)
       IN IF e > i + 2 /\ e <= Len(s) /\ s[e] = ">" THEN e + 1 ELSE 0
  ELSE 0

\* position after a match of /https?:\/\// at i, or 0
SchemeEnd(s, i) ==
  IF HasAt(s, i, <<"h", "t", "t", "p", "s", ":", "/", "/">>) THEN i + 8
  ELSE IF HasAt(s, i, <<"h", "t", "t", "p", ":", "/", "/">>) THEN i + 7
  ELSE 0

\* position after a match of /<https?:\/\/[^|>]+(?:\|[^>]+)?>/ at i, or 0
SlackUrlEnd(s, i) ==
  IF i <= Len(s) /\ s[i] = "<" /\ SchemeEnd(s, i + 1) # 0
  THEN LET b == SchemeEnd(s, i + 1)
           e == RunEndNot(s, b, {"|", ">"})
       IN IF e = b \/ e > Len(s) THEN 0
          ELSE IF s[e] = ">" THEN e + 1
          ELSE LET f == RunEndNot(s, e + 1, {">"})
               IN IF f > e + 1 /\ f <= Len(s) THEN f + 1 ELSE 0
  ELSE 0

\* position after a match of /https?:\/\/\S+/ at i, or 0
PlainUrlEnd(s, i) ==
  LET b == SchemeEnd(s, i)
  IN IF b = 0 THEN 0
     ELSE LET e == RunEndNot(s, b, SpaceChars)
          IN IF e > b THEN e ELSE 0

\* s.replace(/<@[A-Z0-9]+>/g, '')
RECURSIVE StripMentions(_, _)
StripMentions(s, i) ==
  IF i > Len(s) THEN <<>>
  ELSE IF MentionEnd(s, i) # 0 THEN StripMentions(s, MentionEnd(s, i))
  ELSE <<s[i]>> \o StripMentions(s, i + 1)

\* s.replace(/<https?:\/\/[^|>]+(?:\|[^>]+)?>/g, '')
RECURSIVE StripSlackUrls(_, _)
StripSlackUrls(s, i) ==
  IF i > Len(s) THEN <<>>
  ELSE IF SlackUrlEnd(s, i) # 0 THEN StripSlackUrls(s, SlackUrlEnd(s, i))
  ELSE <<s[i]>> \o StripSlackUrls(s, i + 1)

\* s.replace(/https?:\/\/\S+/g, '')
RECURSIVE StripPlainUrls(_, _)
StripPlainUrls(s, i) ==
  IF i > Len(s) THEN <<>>
  ELSE IF PlainUrlEnd(s, i) # 0 THEN StripPlainUrls(s, PlainUrlEnd(s, i))
  ELSE <<s[i]>> \o StripPlainUrls(s, i + 1)

\* s.replace(/[^\w\s-]/g, ' ')
StripSpecial(s) ==
  [i \in 1..Len(s) |->
     IF s[i] \in WordChars \cup SpaceChars \cup {"-"} THEN s[i] ELSE " "]

\* s.toLowerCase()
toLowerCase(s) == [i \in 1..Len(s) |-> LowerOf(s[i])]

replaceMentions(s) == StripMentions(s, 1)
replaceSlackUrls(s) == StripSlackUrls(s, 1)
replacePlainUrls(s) == StripPlainUrls(s, 1)

\* the cleaned text of extractKeywords: the chain of replace calls and
\* toLowerCase
cleaned(message) ==
  Then(Then(Then(Then(replaceMentions(message), replaceSlackUrls),
                 replacePlainUrls), StripSpecial), toLowerCase)

\* s.split(/\s+/): the pieces between the runs of whitespace, the empty
\* pieces at the two ends included
RECURSIVE SplitFrom(_, _, _)
SplitFrom(s, i, cur) ==
  IF i > Len(s) THEN <<cur>>
  ELSE IF IsSpace(s[i])
       THEN <<cur>> \o SplitFrom(s, RunEnd(s, i, SpaceChars), <<>>)
       ELSE SplitFrom(s, i + 1, Append(cur, s[i]))

split(s) == SplitFrom(s, 1, <<>>)

stopWords ==
  {"the", "is", "are", "was", "were", "be", "been", "being", "have", "has",
   "had", "do", "does", "did", "will", "would", "could", "should", "may",
   "might", "must", "shall", "can", "need", "dare", "ought", "used", "a",
   "an", "and", "but", "or", "for", "nor", "on", "at", "to", "from", "by",
   "with", "in", "of", "it", "its", "this", "that", "these", "those", "i",
   "you", "he", "she", "we", "they", "me", "him", "her", "us", "them", "my",
   "your", "his", "our", "their", "not", "no", "yes", "just", "only", "also",
   "very", "too", "so", "as", "if", "when", "where", "why", "how", "what",
   "which", "who", "whom", "whose"}

\* the number of keywords kept
MaxKeywords == 8

\* the predicate of the filter: a word longer than 2 that is no stop-word
KeepWordNoStop(word) == Len(word) > 2
KeepWord(word) == Len(word) > 2 /\ Str(word) \notin stopWords

\* words.slice(0, n)
slice(words, n) == SubSeq(words, 1, IF Len(words) < n THEN Len(words) ELSE n)

\* cleaned.split(/\s+/).filter(...)
filterWords(text) == SelectSeq(split(text), KeepWord)

\* words.slice(0, 8)
topKeywords(words) == slice(words, MaxKeywords)

\* words.join(' ')
RECURSIVE join(_)
join(words) ==
  IF words = <<>> THEN <<>>
  ELSE IF Len(words) = 1 THEN words[1]
  ELSE words[1] \o <<" ">> \o join(Tail(words))

extractKeywords(message) ==
  Then(Then(Then(cleaned(message), filterWords), topKeywords), join)

(***************************************************************************)
(* parseResponse (triage.ts).                                              *)
(*                                                                         *)
(* A raw oracle response is a sequence of lexemes: the fence "```", the    *)
(* language tag "json", a newline, a blank, prose, or one JSON value.      *)
(* A JSON value is null, a non-object value, or an object of which the     *)
(* fields the pipeline reads are kept.                                     *)
(***************************************************************************)
Fence == [k |-> "fence"]
JsonTag == [k |-> "json"]
Newline == [k |-> "nl"]
Blank == [k |-> "sp"]
Prose == [k |-> "prose"]
IsBlankLexeme(l) == l.k \in {"nl", "sp"}

\* a truthy value that is not a string (a number, an object)
NonString == "<non-string>"

validActionsWide ==
  {"existing_ticket", "new_bug", "not_a_bug", "needs_info", "defer", "invalid_action"}
validActions == {"existing_ticket", "new_bug", "not_a_bug", "needs_info", "defer"}

Confidences == {"high", "medium", "low"}
Teams == {"platform", "enterprise", "ai", "data"}

\* the JSON objects an oracle may answer with
JsonObjects ==
  [k : {"object"},
   action : validActions \cup {Absent, "", "invalid_action"},
   explanation : {Absent, "", "text", NonString},
   confidence : Confidences \cup {Absent, "certain"},
   ticketLink : {Absent, "url"},
   newTicket : {Absent, "platform", "mobile"}]

JsonNull == [k |-> "null"]
JsonArray == [k |-> "array"]
JsonValues == JsonObjects \cup {JsonNull, JsonArray}

\* the ways a value is wrapped into a response text
Wrappings == {"bare", "blanks", "fenced-json", "fenced", "fenced-tight",
              "fenced-js", "preamble", "open-only", "close-only",
              "trailing-prose"}

Wrap(w, v) ==
  CASE w = "bare" -> <<v>>
    [] w = "blanks" -> <<Newline, Blank, v, Newline, Blank>>
    [] w = "fenced-json" -> <<Fence, JsonTag, Newline, v, Newline, Fence>>
    [] w = "fenced" -> <<Fence, Newline, v, Newline, Fence, Newline>>
    [] w = "fenced-tight" -> <<Fence, JsonTag, v, Fence>>
    [] w = "fenced-js" -> <<Fence, Prose, Newline, v, Newline, Fence>>
    [] w = "preamble" -> <<Prose, Newline, Fence, JsonTag, Newline, v, Newline, Fence>>
    [] w = "open-only" -> <<Fence, JsonTag, Newline, v>>
    [] w = "close-only" -> <<v, Newline, Fence>>
    [] w = "trailing-prose" -> <<v, Newline, Prose>>

RawResponses ==
  {Wrap(w, v) : w \in Wrappings, v \in JsonValues} \cup {<<>>, <<Prose>>}

\* String.prototype.trim
RECURSIVE trimStart(_)
trimStart(t) ==
  IF t # <<>> /\ IsBlankLexeme(Head(t)) THEN trimStart(Tail(t)) ELSE t

RECURSIVE trimEnd(_)
trimEnd(t) ==
  IF t # <<>> /\ IsBlankLexeme(t[Len(t)]) THEN trimEnd(SubSeq(t, 1, Len(t) - 1)) ELSE t

trim(t) == Then(trimStart(t), trimEnd)

\* t.replace(/^```(?:json)?\n?/, '')
StripOpenFence(t) ==
  IF t # <<>> /\ Head(t).k = "fence"
  THEN LET a == Tail(t)
           b == IF a # <<>> /\ Head(a).k = "json" THEN Tail(a) ELSE a
       IN IF b # <<>> /\ Head(b).k = "nl" THEN Tail(b) ELSE b
  ELSE t

\* t.replace(/\n?```$/, '')
StripCloseFence(t) ==
  IF t # <<>> /\ t[Len(t)].k = "fence"
  THEN LET a == SubSeq(t, 1, Len(t) - 1)
       IN IF a # <<>> /\ a[Len(a)].k = "nl" THEN SubSeq(a, 1, Len(a) - 1) ELSE a
  ELSE t

\* the fences removed from a text that starts with one
StripFences(t) ==
  IF t # <<>> /\ Head(t).k = "fence" THEN Then(StripOpenFence(t), StripCloseFence) ELSE t

\* the text handed to JSON.parse
jsonStr(responseText) == Then(trim(responseText), StripFences)

\* JSON.parse accepts exactly one value surrounded by blanks
IsJsonValue(body) == Len(body) = 1 /\ body[1].k \in {"object", "null", "array"}
JsonParses(t) == Then(trim(t), IsJsonValue)

JSONparse(t) == Then(trim(t), Head)

\* !x of JavaScript on a field of the parsed value
Falsy(x) == x \in {Absent, ""}

\* the field of a parsed value: undefined on a non-object
Field(v, f) == IF v.k = "object" THEN v[f] ELSE Absent

NoDecision == [k |-> "none"]

Threw(msg) == [ok |-> FALSE, error |-> msg, decision |-> NoDecision]
Returned(d) == [ok |-> TRUE, error |-> "", decision |-> d]

\* parseResponse: the validation of the parsed value
Validate(value) ==
  IF value.k = "null" THEN Threw("TypeError")
  ELSE IF Falsy(Field(value, "action"))
          \/ Falsy(Field(value, "explanation"))
          \/ Falsy(Field(value, "confidence"))
       THEN Threw("Missing required fields in response")
  ELSE IF Field(value, "action") \notin validActions
       THEN Threw("Invalid action")
  ELSE Returned(value)

\* parseResponse: JSON.parse and the validation
ParseAndValidate(js) ==
  IF ~JsonParses(js) THEN Threw("SyntaxError") ELSE Then(JSONparse(js), Validate)

\* the outcome of parseResponse: the decision returned or the error thrown
parseResponse(responseText) == Then(jsonStr(responseText), ParseAndValidate)

(***************************************************************************)
(* The triage run (index.ts): options, collaborators and state files.      *)
(***************************************************************************)
\* number of messages in the channel
MaxMsgs == 2

Null == "<null>"

\* the messages of the channel, as conversations.history returns them
\* (newest first); the timestamps are 1..MaxMsgs
Text(ts) ==
  IF ts % 2 = 1
  THEN <<"l", "o", "g", "i", "n", " ", "i", "s", " ", "b", "u", "s", "t">>
  ELSE <<"T", "H", "E", " ", "i", "s", " ", "i", "t">>
User(ts) == IF ts <= 2 THEN "U1" ELSE "U2"
SlackMessage(ts) == [ts |-> ts, user |-> User(ts), text |-> Text(ts)]
Channel == [i \in 1..MaxMsgs |-> SlackMessage(MaxMsgs + 1 - i)]
Users == {"U1", "U2"}


\* the responses the oracle gives in a run
Decision(a, c, link, ticket) ==
  [k |-> "object", action |-> a, explanation |-> "text", confidence |-> c,
   ticketLink |-> link, newTicket |-> ticket]

OracleResponses ==
  {<<Prose>>,
   Wrap("fenced-json", Decision("new_bug", "high", Absent, "platform")),
   Wrap("bare", Decision("new_bug", "low", Absent, "platform")),
   Wrap("bare", Decision("new_bug", "high", Absent, Absent)),
   Wrap("bare", Decision("existing_ticket", "high", "url", Absent)),
   Wrap("bare", Decision("not_a_bug", "medium", Absent, "platform")),
   Wrap("bare", Decision("defer", "low", Absent, Absent))}

\* config.linearTeams[team]: the team id, undefined for an unknown team
linearTeams(team) == IF team \in Teams THEN team ELSE Absent

\* meetsConfidenceThreshold: levels[actual] >= (levels[minimum] ?? 1),
\* where levels = { high: 3, medium: 2, low: 1 } is an object literal.
\* levels[k] is the number for an own key, a member of Object.prototype
\* (a function, or the prototype itself) for an inherited name, and
\* undefined for any other key.
ObjectPrototype ==
  {"constructor", "toString", "toLocaleString", "valueOf", "hasOwnProperty",
   "isPrototypeOf", "propertyIsEnumerable", "__proto__"}

levels(c) ==
  CASE c = "high" -> 3
    [] c = "medium" -> 2
    [] c = "low" -> 1
    [] OTHER -> 0

\* levels[minimum] ?? 1 replaces undefined only; a comparison with an
\* operand that is not a number (undefined, a function, an object) is a
\* comparison with NaN, which is false
meetsConfidenceThreshold(actual, minimum) ==
  IF actual \notin Confidences \/ minimum \in ObjectPrototype
  THEN FALSE
  ELSE levels(actual) >= (IF minimum \in Confidences THEN levels(minimum) ELSE 1)

\* the override of a decision below the threshold (processBugReport)
DeferText ==
  "I'm not confident enough to act on this automatically. A human will review and follow up."
applyThreshold(decision, minimum) ==
  IF ~meetsConfidenceThreshold(decision.confidence, minimum)
  THEN [decision EXCEPT !.action = "defer", !.explanation = DeferText]
  ELSE decision

\* formatSlackReply: the parts of the reply text
formatSlackReply(decision, ticketUrl) ==
  [action |-> decision.action,
   explanation |-> decision.explanation,
   ticket |-> CASE decision.action = "existing_ticket" -> decision.ticketLink
                [] decision.action = "new_bug" -> ticketUrl
                [] OTHER -> Absent,
   humanNote |-> decision.action = "defer",
   lowNote |-> decision.confidence = "low" /\ decision.action # "defer"]

\* what processBugReport does with the decision: create the issue or not
ExecuteIgnoringDryRun(decision, dryRun) ==
  IF decision.action = "new_bug" /\ decision.newTicket # Absent
  THEN IF linearTeams(decision.newTicket) = Absent THEN "unknown-team"
       ELSE "create"
  ELSE "none"
Execute(decision, dryRun) ==
  IF decision.action = "new_bug" /\ decision.newTicket # Absent
  THEN IF linearTeams(decision.newTicket) = Absent THEN "unknown-team"
       ELSE IF dryRun THEN "dry-run"
       ELSE "create"
  ELSE "none"

\* where processBugReport goes after hasTriageReply
AfterCheckNoReturn(alreadyTriaged) == "search"
AfterCheck(alreadyTriaged) == IF alreadyTriaged THEN "return" ELSE "search"

\* where the loop of main goes when processing an item threw
OnItemErrorRethrow(where) == "fatal"
OnItemError(where) == "next"

Files == {"last-run", "triage-history", "reporter-profiles"}

VARIABLES
  pc,           \* position of the running program
  message,      \* extractKeywords: the argument
  keywords,     \* extractKeywords: the result
  responseText, \* parseResponse: the argument
  parsed,       \* parseResponse: the outcome
  options,      \* command-line options of the run
  toProcess,    \* the items selected for the batch
  idx,          \* index of the item being processed
  attempts,     \* the items the loop has started to process, in order
  decision,     \* processBugReport: the decision being acted on
  ticketUrl,    \* processBugReport: url of the issue created
  botReply,     \* Slack: the threads that carry a bot reply
  errorLog,     \* the errors the loop caught and logged (console.error)
  skipped,      \* the messages hasTriageReply reported as already triaged
  searched,     \* Linear: the messages searchIssues was called for
  asked,        \* oracle: the messages triageBug called it for
  created,      \* Linear: the issues createIssue was called for
  posted,       \* Slack: the replies postThreadReply was called for
  history,      \* FeedbackManager: history.logs in memory
  historyFile,  \* triage-history.json as last written
  profiles,     \* ReporterProfileManager: reportCount per user (0: none)
  writes,       \* number of writes made to each state file
  results,      \* evaluate: the results collected
  report,       \* evaluate: the report written
  v1File,       \* eval-significance: the rows of the first report file
  v2File,       \* eval-significance: the rows of the second report file
  v1Results,    \* eval-significance: the first report parsed
  v2Results,    \* eval-significance: the second report parsed
  table,        \* eval-significance: the contingency table
  verdict,      \* eval-significance: the test and its interpretation
  corrections,  \* FeedbackManager: corrections.corrections in memory
  stats,        \* FeedbackManager: the last result of getAccuracyStats
  opCount,      \* FeedbackManager: number of calls made
  actual,       \* meetsConfidenceThreshold: first argument
  minimum,      \* meetsConfidenceThreshold: second argument
  meets,        \* meetsConfidenceThreshold: the result
  corpus,       \* test-data/test-cases.json
  trace,        \* enrich-with-threads: the requests and the sleeps, in order
  suggestion,   \* analyzeThread: the result
  fetched,      \* main: messages, what getMessagesSince returned
  lastRun       \* the content of .last-run: <<t>>, or <<>> while the file is missing

vars == <<pc, message, keywords, responseText, parsed, options, toProcess,
          idx, attempts, errorLog, decision, ticketUrl, botReply, skipped, searched,
          asked, created, posted, history, historyFile, profiles, writes,
          results, report, v1File, v2File, v1Results, v2Results, table,
          verdict, corrections, stats, opCount, actual, minimum, meets,
          corpus, trace, suggestion, fetched, lastRun>>

pureVars == <<message, keywords, responseText, parsed>>
runVars == <<options, toProcess, idx, attempts, errorLog, decision, ticketUrl,
            fetched, lastRun>>
slackVars == <<botReply, skipped, posted>>
linearVars == <<searched, created>>
feedbackVars == <<history, historyFile>>
evalVars == <<results, report>>
compareVars == <<v1File, v2File, v1Results, v2Results, table, verdict>>
statsVars == <<corrections, stats, opCount>>
thresholdVars == <<actual, minimum, meets>>
\* the variables of the comparator, of the feedback calls, of the
\* threshold function and of the corpus tools, which the runs leave alone
toolVars == <<corpus, trace, suggestion>>
offlineVars == <<compareVars, statsVars, thresholdVars, toolVars>>

NoOptions == [dryRun |-> FALSE]

\* the values of the variables a program does not use
IdlePure ==
  /\ message = <<>> /\ keywords = <<>>
  /\ responseText = <<>> /\ parsed = Threw("")
IdleRun ==
  /\ decision = NoDecision /\ ticketUrl = Absent
  /\ fetched = <<>> /\ lastRun = <<>>
  /\ botReply = {} /\ skipped = {} /\ searched = <<>> /\ asked = <<>>
  /\ created = <<>> /\ posted = <<>>
  /\ history = <<>> /\ historyFile = <<>>
  /\ profiles = [u \in Users |-> 0]
  /\ writes = [f \in Files |-> 0]
IdleEval == results = <<>> /\ report = [written |-> FALSE]
IdleCompare ==
  /\ v1File = <<>> /\ v2File = <<>> /\ v1Results = <<>> /\ v2Results = <<>>
  /\ table = [a |-> 0, b |-> 0, c |-> 0, d |-> 0, n |-> 0]
  /\ verdict = [label |-> "none"]
IdleStats == corrections = <<>> /\ stats = [total |-> 0] /\ opCount = 0
IdleThreshold == actual = "" /\ minimum = "" /\ meets = FALSE
NoCorpus == [state |-> "missing", cases |-> <<>>]
IdleTools == corpus = NoCorpus /\ trace = <<>> /\ suggestion = [action |-> Null]
IdleOffline == IdleCompare /\ IdleStats /\ IdleThreshold /\ IdleTools

(***************************************************************************)
(* The triage run: main and processBugReport (index.ts).                   *)
(***************************************************************************)
\* the three levels and a text that is not a level
MinConfidences == {"low", "medium", "high", "constructor"}
Limits == {1, 10}

InitTriage ==
  /\ pc = "start"
  /\ options \in [dryRun : BOOLEAN, minConfidence : MinConfidences, limit : Limits]
  /\ toProcess = <<>> /\ idx = 0 /\ attempts = <<>> /\ errorLog = <<>>
  /\ decision = NoDecision /\ ticketUrl = Absent
  /\ botReply \in SUBSET (1..MaxMsgs)
  /\ skipped = {} /\ searched = <<>> /\ asked = <<>>
  /\ created = <<>> /\ posted = <<>>
  /\ history = <<>> /\ historyFile = <<>>
  /\ profiles = [u \in Users |-> 0]
  /\ writes = [f \in Files |-> 0]
  /\ fetched = <<>> /\ lastRun = <<>>
  /\ IdlePure /\ IdleEval /\ IdleOffline

\* the message being processed
Current == toProcess[idx]

\* the loop of main moves to the next message, or leaves the loop
NextItem ==
  /\ idx' = idx + 1
  /\ pc' = IF idx + 1 > Len(toProcess) THEN "save" ELSE "profile"
  /\ decision' = NoDecision
  /\ ticketUrl' = Absent

\* processBugReport threw at `where`: the catch of the loop in main
ItemFailed(where) ==
  /\ errorLog' = Append(errorLog, [item |-> Current.ts, error |-> where])
  /\ IF OnItemError(where) = "next"
     THEN NextItem
     ELSE pc' = "fatal" /\ UNCHANGED <<idx, decision, ticketUrl>>

\* what --since can be on the command line: <<>> when not given, or a
\* timestamp <<t>>
SinceOptions == {<<>>} \cup {<<t>> : t \in 0..MaxMsgs}

\* loadLastRunTimestamp: --since, else the content of .last-run, else one
\* hour ago
loadLastRunTimestamp(sinceOption, file, hourAgo) ==
  IF sinceOption # <<>> THEN sinceOption[1]
  ELSE IF file # <<>> THEN file[1]
  ELSE hourAgo

\* main: loadLastRunTimestamp, slack.getMessagesSince and
\* messages.slice(0, limit)
FetchMessages ==
  /\ pc = "start"
  /\ \/ /\ pc' = "fatal"
        /\ UNCHANGED <<fetched, toProcess, idx>>
     \/ \E sinceOption \in SinceOptions, hourAgo \in 0..MaxMsgs :
          LET since == loadLastRunTimestamp(sinceOption, lastRun, hourAgo)
              IsNew(m) == m.ts > since
              messages == SelectSeq(Channel, IsNew)
          IN /\ fetched' = messages
             /\ toProcess' = slice(messages, options.limit)
             /\ idx' = 1
             /\ pc' = IF toProcess' = <<>> THEN "save" ELSE "profile"
  /\ UNCHANGED <<offlineVars, lastRun, pureVars, options, attempts, errorLog, decision,
                 ticketUrl, slackVars, linearVars, asked, feedbackVars, profiles,
                 writes, evalVars>>

\* ReporterProfileManager.updateProfile: reportCount of the user, plus one
updateProfile(cache, userId) == [cache EXCEPT ![userId] = @ + 1]

\* processBugReport: reporter name and profile
GetReporterProfile ==
  /\ pc = "profile"
  /\ attempts' = Append(attempts, Current.ts)
  /\ IF profiles[Current.user] = 0
     THEN /\ profiles' = updateProfile(profiles, Current.user)
          /\ writes' = [writes EXCEPT !["reporter-profiles"] = @ + 1]
     ELSE UNCHANGED <<profiles, writes>>
  /\ pc' = "check"
  /\ UNCHANGED <<offlineVars, fetched, lastRun, pureVars, options, toProcess, idx, errorLog, decision, ticketUrl,
                 slackVars, linearVars, asked, feedbackVars, evalVars>>

\* SlackClient.hasTriageReply: a bot message among the replies; false when
\* conversations.replies fails
hasTriageReply(replies, ts, apiFails) == ~apiFails /\ ts \in replies

\* processBugReport: the already-triaged check
CheckTriaged ==
  /\ pc = "check"
  /\ \E apiFails \in BOOLEAN :
       LET alreadyTriaged == hasTriageReply(botReply, Current.ts, apiFails)
       IN IF AfterCheck(alreadyTriaged) = "return"
          THEN /\ skipped' = skipped \cup {Current.ts}
               /\ NextItem
          ELSE /\ skipped' = IF alreadyTriaged THEN skipped \cup {Current.ts} ELSE skipped
               /\ pc' = "search"
               /\ UNCHANGED <<idx, decision, ticketUrl>>
  /\ UNCHANGED <<offlineVars, fetched, lastRun, pureVars, options, toProcess, attempts, errorLog, botReply, posted,
                 linearVars, asked, feedbackVars, profiles, writes, evalVars>>

\* processBugReport: extractKeywords and linear.searchIssues
SearchLinear ==
  /\ pc = "search"
  /\ IF extractKeywords(Current.text) # <<>>
     THEN /\ searched' = Append(searched, Current.ts)
          /\ \/ ItemFailed("searchIssues")
             \/ pc' = "triage" /\ UNCHANGED <<idx, decision, ticketUrl, errorLog>>
     ELSE /\ pc' = "triage"
          /\ UNCHANGED <<searched, idx, decision, ticketUrl, errorLog>>
  /\ UNCHANGED <<offlineVars, fetched, lastRun, pureVars, options, toProcess, attempts, slackVars, created,
                 asked, feedbackVars, profiles, writes, evalVars>>

\* the size the history is cut back to
HistoryCap == 1000

\* logs.slice(-n)
lastN(logs, n) ==
  IF Len(logs) > n THEN SubSeq(logs, Len(logs) - n + 1, Len(logs)) ELSE logs

TriageLogUnjudged(ts, d) == [messageTs |-> ts, decision |-> d, wasCorrect |-> Absent]
TriageLog(ts, d) == [messageTs |-> ts, decision |-> d, wasCorrect |-> Null]

\* triageBug: the oracle's answer parsed, or the error thrown
triageBug(answer) ==
  IF answer = <<>> THEN Threw("oracle call failed") ELSE parseResponse(answer)

\* processBugReport: triageBug, feedback.logDecision and the confidence
\* threshold.  The history entry holds the decision object itself, so the
\* override shows in the history in memory; the file holds the decision as
\* it was when logDecision saved it.
TriageMessage ==
  /\ pc = "triage"
  /\ asked' = Append(asked, Current.ts)
  /\ \E answer \in OracleResponses \cup {<<>>} :
       LET r == triageBug(answer)
           acted == applyThreshold(r.decision, options.minConfidence)
       IN IF ~r.ok
          THEN /\ ItemFailed(r.error)
               /\ UNCHANGED <<feedbackVars, writes>>
          ELSE /\ history' = lastN(Append(history, TriageLog(Current.ts, acted)), HistoryCap)
               /\ historyFile' = lastN(Append(history, TriageLog(Current.ts, r.decision)), HistoryCap)
               /\ writes' = [writes EXCEPT !["triage-history"] = @ + 1]
               /\ decision' = acted
               /\ pc' = "execute"
               /\ UNCHANGED <<idx, ticketUrl, errorLog>>
  /\ UNCHANGED <<offlineVars, fetched, lastRun, pureVars, options, toProcess, attempts, slackVars, linearVars,
                 profiles, evalVars>>

\* processBugReport: execute the decision (linear.createIssue)
ExecuteDecision ==
  /\ pc = "execute"
  /\ IF Execute(decision, options.dryRun) = "create"
     THEN \E threw \in BOOLEAN :
            /\ created' = Append(created,
                 [ts |-> Current.ts, team |-> decision.newTicket,
                  confidence |-> decision.confidence, threw |-> threw])
            /\ IF threw
               THEN ItemFailed("createIssue")
               ELSE /\ ticketUrl' = "issue-url"
                    /\ pc' = "reply"
                    /\ UNCHANGED <<idx, decision, errorLog>>
     ELSE /\ pc' = "reply"
          /\ UNCHANGED <<created, idx, decision, ticketUrl, errorLog>>
  /\ UNCHANGED <<offlineVars, fetched, lastRun, pureVars, options, toProcess, attempts, slackVars, searched,
                 asked, feedbackVars, profiles, writes, evalVars>>

\* whether processBugReport posts the reply
PostsReply(dryRun) == ~dryRun

\* processBugReport: formatSlackReply and slack.postThreadReply
PostReply ==
  /\ pc = "reply"
  /\ IF PostsReply(options.dryRun)
     THEN \E threw \in BOOLEAN :
            /\ posted' = Append(posted,
                 [ts |-> Current.ts, reply |-> formatSlackReply(decision, ticketUrl),
                  threw |-> threw])
            /\ botReply' = IF threw THEN botReply ELSE botReply \cup {Current.ts}
            /\ IF threw THEN ItemFailed("postThreadReply")
               ELSE NextItem /\ UNCHANGED errorLog
     ELSE /\ NextItem
          /\ UNCHANGED <<posted, botReply, errorLog>>
  /\ UNCHANGED <<offlineVars, fetched, lastRun, pureVars, options, toProcess, attempts, skipped, linearVars,
                 asked, feedbackVars, profiles, writes, evalVars>>

\* saveLastRunTimestamp: the writes after the call
saveLastRunTimestamp(dryRun, w) ==
  IF dryRun THEN w ELSE [w EXCEPT !["last-run"] = @ + 1]

\* Date.now() at the end of main: later than every message of the channel
Now == MaxMsgs + 1

\* main: save the state after the loop
SaveState ==
  /\ pc = "save"
  /\ writes' = saveLastRunTimestamp(options.dryRun, writes)
  /\ lastRun' = IF writes' = writes THEN lastRun ELSE <<Now>>
  /\ pc' = "done"
  /\ UNCHANGED <<offlineVars, fetched, pureVars, options, toProcess, idx, attempts,
                 errorLog, decision, ticketUrl, slackVars, linearVars, asked,
                 feedbackVars, profiles, evalVars>>

Next ==
  \/ FetchMessages
  \/ GetReporterProfile
  \/ CheckTriaged
  \/ SearchLinear
  \/ TriageMessage
  \/ ExecuteDecision
  \/ PostReply
  \/ SaveState

Spec == InitTriage /\ [][Next]_vars

(***************************************************************************)
(* A sequence of non-dry runs with the default threshold over the same     *)
(* channel: the thread replies, the issues, the files and .last-run are    *)
(* what one run leaves to the next.                                        *)
(***************************************************************************)
\* number of runs that reach the save of .last-run
MaxRuns == 2

RunOptions == [dryRun : {FALSE}, minConfidence : {"low"}, limit : Limits]

InitRuns ==
  /\ InitTriage
  /\ options \in RunOptions
  /\ botReply = {}

\* the next invocation of the tool: a new process, whose FeedbackManager
\* loads the history file (loadHistory)
StartNextRun ==
  /\ pc \in {"done", "fatal"}
  /\ writes["last-run"] < MaxRuns
  /\ pc' = "start"
  /\ options' \in RunOptions
  /\ fetched' = <<>> /\ toProcess' = <<>> /\ idx' = 0
  /\ attempts' = <<>> /\ errorLog' = <<>>
  /\ decision' = NoDecision /\ ticketUrl' = Absent
  /\ skipped' = {} /\ searched' = <<>> /\ asked' = <<>>
  /\ history' = historyFile
  /\ UNCHANGED <<offlineVars, pureVars, lastRun, botReply, posted, created,
                 historyFile, profiles, writes, evalVars>>

NextRuns ==
  \/ Next
  \/ StartNextRun

SpecRuns == InitRuns /\ [][NextRuns]_vars

(***************************************************************************)
(* The pure functions, applied to inputs drawn from bounded sets.          *)
(***************************************************************************)
Fragments ==
  {<<"b", "u", "g">>,
   <<"T", "H", "E">>,
   <<"a", "b">>,
   <<" ">>,
   <<"\n">>,
   <<"<", "@", "U", "1", ">">>,
   <<"<", "@", "u", "s", "r", ">">>,
   <<"<", "h", "t", "t", "p", ":", "/", "/", "x", "|", "y", ">">>,
   <<"h", "t", "t", "p", "s", ":", "/", "/", "x">>,
   <<"!">>,
   <<"-">>,
   <<"<">>,
   <<">">>}

RECURSIVE Repeat(_, _)
Repeat(w, n) == IF n = 0 THEN <<>> ELSE w \o Repeat(w, n - 1)

RECURSIVE Concat(_)
Concat(segs) == IF segs = <<>> THEN <<>> ELSE Head(segs) \o Concat(Tail(segs))

SegSeqs == UNION {[1..n -> Fragments] : n \in 0..MaxSegs}

\* the messages extractKeywords is applied to
KeywordInputs ==
  {Repeat(<<"e", "r", "r", " ">>, n) \o Concat(segs) : n \in 0..MaxRepeat, segs \in SegSeqs}

InitKeywords ==
  /\ pc = "kw-input"
  /\ message \in KeywordInputs
  /\ keywords = <<>>
  /\ responseText = <<>> /\ parsed = Threw("")
  /\ options = NoOptions /\ toProcess = <<>> /\ idx = 0 /\ attempts = <<>>
  /\ errorLog = <<>>
  /\ IdleRun /\ IdleEval /\ IdleOffline

ExtractKeywords ==
  /\ pc = "kw-input"
  /\ keywords' = extractKeywords(message)
  /\ pc' = "kw-done"
  /\ UNCHANGED <<offlineVars, message, responseText, parsed, runVars, slackVars, linearVars,
                 asked, feedbackVars, profiles, writes, evalVars>>

NextKeywords == ExtractKeywords

SpecKeywords == InitKeywords /\ [][NextKeywords]_vars

InitParse ==
  /\ pc = "parse-input"
  /\ responseText \in RawResponses
  /\ parsed = Threw("")
  /\ message = <<>> /\ keywords = <<>>
  /\ options = NoOptions /\ toProcess = <<>> /\ idx = 0 /\ attempts = <<>>
  /\ errorLog = <<>>
  /\ IdleRun /\ IdleEval /\ IdleOffline

ParseResponse ==
  /\ pc = "parse-input"
  /\ parsed' = parseResponse(responseText)
  /\ pc' = "parse-done"
  /\ UNCHANGED <<offlineVars, message, keywords, responseText, runVars, slackVars,
                 linearVars, asked, feedbackVars, profiles, writes, evalVars>>

NextParse == ParseResponse

SpecParse == InitParse /\ [][NextParse]_vars

(***************************************************************************)
(* The evaluation harness (scripts/evaluate.ts).                           *)
(***************************************************************************)
\* number of cases in the corpus
MaxCases == 2

\* expected outcomes of a case: unlabeled, or labeled with or without a team
Expecteds ==
  {[action |-> Null, team |-> Absent],
   [action |-> "new_bug", team |-> "platform"],
   [action |-> "new_bug", team |-> Null],
   [action |-> "new_bug", team |-> Absent],
   [action |-> "defer", team |-> "platform"]}

\* mockLinearResults of the case: missing, an empty list, or issues
MockOf(i) ==
  CASE i % 3 = 1 -> Absent
    [] i % 3 = 2 -> "issues"
    [] OTHER -> "empty"

TestCase(i, e) == [id |-> i, message |-> Text(i), mock |-> MockOf(i), expected |-> e]

\* the contents of test-cases.json
Corpora ==
  UNION {{[i \in 1..n |-> TestCase(i, es[i])] : es \in [1..n -> Expecteds]} : n \in 1..MaxCases}

\* the answers of the oracle in an evaluation
EvalAnswers ==
  {<<Prose>>,
   Wrap("fenced-json", Decision("new_bug", "high", Absent, "platform")),
   Wrap("bare", Decision("new_bug", "high", Absent, "mobile")),
   Wrap("bare", Decision("defer", "low", Absent, Absent)),
   Wrap("bare", [Decision("defer", "medium", Absent, "platform") EXCEPT !.explanation = NonString])}

EvalOptions == [skipUnlabeled : BOOLEAN, limit : {0, 1}, caseId : {0, 1, 99}]

InitEval ==
  /\ pc = "eval-start"
  /\ options \in EvalOptions
  /\ toProcess \in Corpora
  /\ idx = 0 /\ attempts = <<>> /\ errorLog = <<>>
  /\ IdlePure /\ IdleRun /\ IdleEval /\ IdleOffline

\* the keywords of the real search of the harness
LongWord(w) == Len(w) > 3
filterLongWords(text) == SelectSeq(split(text), LongWord)
firstFive(words) == slice(words, 5)
EvalKeywords(text) ==
  Then(Then(Then(Then(replaceMentions(text), replaceSlackUrls), filterLongWords),
            firstFive), join)

\* main: the filters on the cases
SelectCases(cases, opts) ==
  LET IsCase(c) == c.id = opts.caseId
      IsLabeled(c) == c.expected.action # Null
      a == IF opts.caseId # 0 THEN SelectSeq(cases, IsCase) ELSE cases
      b == IF opts.skipUnlabeled THEN SelectSeq(a, IsLabeled) ELSE a
  IN IF opts.limit # 0 THEN slice(b, opts.limit) ELSE b

CaseFound(cases, opts) ==
  opts.caseId = 0 \/ \E i \in 1..Len(cases) : cases[i].id = opts.caseId

\* main: load and filter the corpus
LoadCases ==
  /\ pc = "eval-start"
  /\ \/ /\ pc' = "fatal"
        /\ UNCHANGED <<toProcess, idx>>
     \/ /\ ~CaseFound(toProcess, options)
        /\ pc' = "fatal"
        /\ UNCHANGED <<toProcess, idx>>
     \/ /\ CaseFound(toProcess, options)
        /\ toProcess' = SelectCases(toProcess, options)
        /\ idx' = 1
        /\ pc' = IF toProcess' = <<>> THEN "eval-report" ELSE "eval-case"
  /\ UNCHANGED <<offlineVars, fetched, lastRun, pureVars, options, attempts, errorLog, decision, ticketUrl,
                 slackVars, linearVars, asked, feedbackVars, profiles, writes,
                 evalVars>>

Bool(b) == IF b THEN "true" ELSE "false"

\* the team of the decision's new ticket: decision.newTicket?.team
TeamOf(d) == d.newTicket

\* main: the result of a case the decision function answered
ScoredResult(tc, d) ==
  [id |-> tc.id,
   expected |-> tc.expected,
   actual |-> d,
   actionMatch |-> IF tc.expected.action = Null THEN Null
                   ELSE Bool(d.action = tc.expected.action),
   teamMatch |-> IF tc.expected.team = Null \/ tc.expected.action # "new_bug"
                 THEN Null
                 ELSE Bool(TeamOf(d) = tc.expected.team),
   notes |-> ""]

\* main: the result of a case on which the try block threw
ErrorResultUnlabeled(tc, err) ==
  [id |-> tc.id,
   expected |-> tc.expected,
   actual |-> [k |-> "object", action |-> "needs_info",
               explanation |-> "Error: " \o err, confidence |-> "low",
               ticketLink |-> Absent, newTicket |-> Absent],
   actionMatch |-> IF tc.expected.action = Null THEN Null ELSE "false",
   teamMatch |-> Null,
   notes |-> "Error: " \o err]
ErrorResult(tc, err) ==
  [id |-> tc.id,
   expected |-> tc.expected,
   actual |-> [k |-> "object", action |-> "needs_info",
               explanation |-> "Error: " \o err, confidence |-> "low",
               ticketLink |-> Absent, newTicket |-> Absent],
   actionMatch |-> "false",
   teamMatch |-> Null,
   notes |-> "Error: " \o err]

\* the loop of main moves to the next case, or leaves the loop
NextCase ==
  /\ idx' = idx + 1
  /\ pc' = IF idx + 1 > Len(toProcess) THEN "eval-report" ELSE "eval-case"

\* the TypeError of explanation.substring on a value that is no string
SubstringError == "explanation.substring is not a function"

\* main: the catch of the loop, entered after `pushed` was pushed
Caught(pushed, err) ==
  /\ errorLog' = Append(errorLog, [item |-> Current.id, error |-> err])
  /\ results' = results \o pushed \o <<ErrorResult(Current, err)>>

\* main: one iteration of the loop over the cases.  The result is pushed
\* before the decision is logged, and logging calls explanation.substring,
\* which throws on an explanation that is not a string.
EvaluateCase ==
  /\ pc = "eval-case"
  /\ attempts' = Append(attempts, Current.id)
  /\ LET realSearch == Current.mock = Absent /\ EvalKeywords(Current.message) # <<>>
     IN \/ /\ realSearch
           /\ searched' = Append(searched, Current.id)
           /\ Caught(<<>>, "searchIssues")
           /\ UNCHANGED asked
        \/ /\ searched' = IF realSearch THEN Append(searched, Current.id) ELSE searched
           /\ asked' = Append(asked, Current.id)
           /\ \E answer \in EvalAnswers \cup {<<>>} :
                LET r == triageBug(answer)
                IN IF ~r.ok THEN Caught(<<>>, r.error)
                   ELSE IF r.decision.explanation = NonString
                   THEN Caught(<<ScoredResult(Current, r.decision)>>, SubstringError)
                   ELSE /\ results' = Append(results, ScoredResult(Current, r.decision))
                        /\ UNCHANGED errorLog
  /\ NextCase
  /\ UNCHANGED <<offlineVars, fetched, lastRun, pureVars, options, toProcess, decision, ticketUrl, slackVars,
                 created, feedbackVars, profiles, writes, report>>

\* Math.round(100 * c / n) for non-negative integers
RoundPercent(c, n) == (200 * c + n) \div (2 * n)

\* generateReport: the header of the report and the failures section
generateReport(rs) ==
  LET IsLabeled(r) == r.actionMatch # Null
      IsCorrect(r) == r.actionMatch = "true"
      IsFailure(r) == r.actionMatch = "false"
      labeled == SelectSeq(rs, IsLabeled)
      correct == SelectSeq(labeled, IsCorrect)
  IN [written |-> TRUE,
      total |-> Len(rs),
      labeled |-> Len(labeled),
      correct |-> Len(correct),
      accuracy |-> IF Len(labeled) > 0 THEN RoundPercent(Len(correct), Len(labeled)) ELSE 0,
      failures |-> SelectSeq(rs, IsFailure)]

\* main: generate and write the report
WriteReport ==
  /\ pc = "eval-report"
  /\ report' = generateReport(results)
  /\ pc' = "eval-done"
  /\ UNCHANGED <<offlineVars, pureVars, runVars, slackVars, linearVars, asked,
                 feedbackVars, profiles, writes, results>>

NextEval ==
  \/ LoadCases
  \/ EvaluateCase
  \/ WriteReport

SpecEval == InitEval /\ [][NextEval]_vars

(***************************************************************************)
(* The two batch loops under the assumption that every call made returns   *)
(* or throws: a step that is enabled is eventually taken.                  *)
(***************************************************************************)
\* the triage runs are taken with the default --min-confidence: the
\* threshold changes what is done with a decision, never the loop
InitBatch == (InitTriage /\ options.minConfidence = "low") \/ InitEval
NextBatch == Next \/ NextEval
SpecBatch == InitBatch /\ [][NextBatch]_vars /\ WF_vars(NextBatch)

(***************************************************************************)
(* The significance comparator (scripts/eval-significance.ts).  A report   *)
(* file is the sequence of the rows of its results table, each row the     *)
(* case id and the icon of the Action column.                              *)
(***************************************************************************)
\* number of free rows of a report
MaxRows == 2
\* number of cases in a block of cases the two reports disagree on
MaxBlock == 6

\* generateReport: the icon of the Action column
actionIcon(actionMatch) ==
  CASE actionMatch = Null -> "circle"
    [] actionMatch = "true" -> "check"
    [] OTHER -> "cross"

\* generateReport: the row of a result
ReportRow(id, actionMatch) == [id |-> id, icon |-> actionIcon(actionMatch)]

FreeIds == {1, 2}
FreeRows == {ReportRow(i, m) : i \in FreeIds, m \in {"true", "false", Null}}
FreeReports(n) == UNION {[1..k -> FreeRows] : k \in 0..n}

\* n rows, for the cases first+1 .. first+n, all with the same actionMatch
Block(first, n, actionMatch) == [i \in 1..n |-> ReportRow(first + i, actionMatch)]

\* the pairs of report files the comparator is run on: up to `rows` free rows (cases in
\* one report only, unlabeled cases, a case reported twice), or a few free
\* rows followed by nb cases fixed and nc cases broken by the second report
ReportPairs(rows, block) ==
  {<<f1, f2>> : f1 \in FreeReports(rows), f2 \in FreeReports(rows)}
  \cup
  {<<f[1] \o Block(100, k[1], "false") \o Block(200, k[2], "true"),
     f[2] \o Block(100, k[1], "true") \o Block(200, k[2], "false")>> :
     f \in FreeReports(1) \X FreeReports(1),
     k \in (0..block) \X (0..block)}

\* Map.has, Map.get and Map.set on a map kept in insertion order
MapHas(map, key) == \E i \in 1..Len(map) : map[i].caseId = key
MapGet(map, key) == map[CHOOSE i \in 1..Len(map) : map[i].caseId = key]
MapSet(map, key, value) ==
  IF MapHas(map, key)
  THEN [i \in 1..Len(map) |-> IF map[i].caseId = key THEN value ELSE map[i]]
  ELSE Append(map, value)

\* parseResultsFile: the rows of the table into a map by case id
RECURSIVE ParseRows(_, _, _)
ParseRows(rows, i, map) ==
  IF i > Len(rows) THEN map
  ELSE ParseRows(rows, i + 1,
         MapSet(map, rows[i].id,
                [caseId |-> rows[i].id, actionMatch |-> rows[i].icon = "check"]))

parseResultsFile(content) == ParseRows(content, 1, <<>>)

\* main: the cell of a common case
ClassifyTransposed(m1, m2) ==
  IF m1 /\ m2 THEN "a"
  ELSE IF ~m1 /\ m2 THEN "c"
  ELSE IF m1 /\ ~m2 THEN "b"
  ELSE "d"
Classify(m1, m2) ==
  IF m1 /\ m2 THEN "a"
  ELSE IF ~m1 /\ m2 THEN "b"
  ELSE IF m1 /\ ~m2 THEN "c"
  ELSE "d"

NoTable == [a |-> 0, b |-> 0, c |-> 0, d |-> 0, n |-> 0]

\* main: the loop that builds the contingency table; n is commonCases.length
RECURSIVE Tally(_, _, _, _)
Tally(r1, r2, i, t) ==
  IF i > Len(r1) THEN t
  ELSE IF ~MapHas(r2, r1[i].caseId) THEN Tally(r1, r2, i + 1, t)
  ELSE Tally(r1, r2, i + 1,
         [t EXCEPT ![Classify(r1[i].actionMatch,
                              MapGet(r2, r1[i].caseId).actionMatch)] = @ + 1,
                   !.n = @ + 1])

ContingencyTable(r1, r2) == Tally(r1, r2, 1, NoTable)

Abs(x) == IF x < 0 THEN -x ELSE x

\* the upper tail of the chi-square distribution with one degree of freedom,
\* 1 - chiSquareCDF(x, 1), by the interval it falls in: exactly 1 at x = 0,
\* below 0.05 beyond the critical value 3.841459, at least 0.05 otherwise
UpperTail(chiSquare) ==
  IF chiSquare.num = 0 THEN "1"
  ELSE IF chiSquare.num * 1000000 > 3841459 * chiSquare.den THEN "<0.05"
  ELSE ">=0.05"

\* mcnemarsTest: the statistic as a fraction, and the p-value
mcnemarsTestUncorrected(b, c) ==
  IF b + c = 0 THEN [chiSquare |-> [num |-> 0, den |-> 1], pValue |-> "1"]
  ELSE LET chiSquare == [num |-> Abs(b - c) * Abs(b - c), den |-> b + c]
       IN [chiSquare |-> chiSquare, pValue |-> UpperTail(chiSquare)]
mcnemarsTestSigned(b, c) ==
  IF b + c = 0 THEN [chiSquare |-> [num |-> 0, den |-> 1], pValue |-> "1"]
  ELSE LET chiSquare == [num |-> (b - c - 1) * (b - c - 1), den |-> b + c]
       IN [chiSquare |-> chiSquare, pValue |-> UpperTail(chiSquare)]
mcnemarsTest(b, c) ==
  IF b + c = 0 THEN [chiSquare |-> [num |-> 0, den |-> 1], pValue |-> "1"]
  ELSE LET chiSquare == [num |-> (Abs(b - c) - 1) * (Abs(b - c) - 1), den |-> b + c]
       IN [chiSquare |-> chiSquare, pValue |-> UpperTail(chiSquare)]

\* main: the interpretation printed
InterpretReversed(pValue, v1Correct, v2Correct) ==
  IF pValue = "<0.05"
  THEN IF v1Correct > v2Correct THEN "better" ELSE "worse"
  ELSE "inconclusive"
Interpret(pValue, v1Correct, v2Correct) ==
  IF pValue = "<0.05"
  THEN IF v2Correct > v1Correct THEN "better" ELSE "worse"
  ELSE "inconclusive"

\* main, from the table on: the test and the interpretation
Conclude(t) ==
  LET test == mcnemarsTest(t.b, t.c)
  IN [label |-> Interpret(test.pValue, t.a + t.c, t.a + t.b),
      chiSquare |-> test.chiSquare,
      pValue |-> test.pValue]

InitCompare ==
  /\ pc = "cmp-start"
  /\ \E files \in ReportPairs(MaxRows, MaxBlock) : v1File = files[1] /\ v2File = files[2]
  /\ v1Results = <<>> /\ v2Results = <<>>
  /\ table = NoTable
  /\ verdict = [label |-> "none"]
  /\ options = NoOptions /\ toProcess = <<>> /\ idx = 0 /\ attempts = <<>>
  /\ errorLog = <<>>
  /\ IdlePure /\ IdleRun /\ IdleEval /\ IdleStats /\ IdleThreshold /\ IdleTools

\* main: the arguments, the two files read and parsed
ReadReports ==
  /\ pc = "cmp-start"
  /\ \/ /\ pc' = "fatal"
        /\ UNCHANGED <<v1Results, v2Results>>
     \/ /\ v1Results' = parseResultsFile(v1File)
        /\ v2Results' = parseResultsFile(v2File)
        /\ pc' = "cmp-table"
  /\ UNCHANGED <<pureVars, runVars, slackVars, linearVars, asked, feedbackVars,
                 profiles, writes, evalVars, v1File, v2File, table, verdict,
                 statsVars, thresholdVars, toolVars>>

\* main: the contingency table
BuildTable ==
  /\ pc = "cmp-table"
  /\ table' = ContingencyTable(v1Results, v2Results)
  /\ pc' = "cmp-test"
  /\ UNCHANGED <<pureVars, runVars, slackVars, linearVars, asked, feedbackVars,
                 profiles, writes, evalVars, v1File, v2File, v1Results,
                 v2Results, verdict, statsVars, thresholdVars, toolVars>>

\* main: McNemar's test and the interpretation
TestAndInterpret ==
  /\ pc = "cmp-test"
  /\ verdict' = Conclude(table)
  /\ pc' = "cmp-done"
  /\ UNCHANGED <<pureVars, runVars, slackVars, linearVars, asked, feedbackVars,
                 profiles, writes, evalVars, v1File, v2File, v1Results,
                 v2Results, table, statsVars, thresholdVars, toolVars>>

NextCompare ==
  \/ ReadReports
  \/ BuildTable
  \/ TestAndInterpret

SpecCompare == InitCompare /\ [][NextCompare]_vars

(***************************************************************************)
(* The decision history of FeedbackManager (feedback.ts): logDecision,     *)
(* logCorrection, markCorrect and getAccuracyStats, called in any order on *)
(* a history loaded from triage-history.json.                              *)
(***************************************************************************)
\* number of calls of logDecision, logCorrection and markCorrect
MaxOps == 3

\* the decision logged
LoggedDecision == Decision("not_a_bug", "high", Absent, Absent)

\* the history file left by earlier runs: n entries of older messages (their
\* timestamps are below 1), some of them judged already
Verdict(i) ==
  CASE i % 3 = 0 -> Null
    [] i % 3 = 1 -> "true"
    [] OTHER -> "false"
Stored(n) ==
  [i \in 1..n |->
     [messageTs |-> i - n, decision |-> LoggedDecision, wasCorrect |-> Verdict(i)]]
StoredHistories == {Stored(0), Stored(HistoryCap)}

\* the messages of this run, whose decisions are logged
NewMessages == {1, 2}

\* logDecision: the logs after the push and the cut to the last 1000
logDecisionPrepend(logs, messageTs, d) ==
  IF Len(logs) + 1 > HistoryCap
  THEN lastN(<<TriageLog(messageTs, d)>> \o logs, HistoryCap)
  ELSE <<TriageLog(messageTs, d)>> \o logs
logDecision(logs, messageTs, d) ==
  IF Len(logs) + 1 > HistoryCap
  THEN lastN(Append(logs, TriageLog(messageTs, d)), HistoryCap)
  ELSE Append(logs, TriageLog(messageTs, d))

\* logs.find(l => l.messageTs === messageTs)
Found(logs, messageTs) == \E i \in 1..Len(logs) : logs[i].messageTs = messageTs
FindIndex(logs, messageTs) ==
  CHOOSE i \in 1..Len(logs) :
    /\ logs[i].messageTs = messageTs
    /\ \A j \in 1..(i - 1) : logs[j].messageTs # messageTs

\* log.wasCorrect = value on the entry found, if any
SetWasCorrect(logs, messageTs, value) ==
  IF Found(logs, messageTs)
  THEN [logs EXCEPT ![FindIndex(logs, messageTs)].wasCorrect = value]
  ELSE logs

\* getAccuracyStats; the accuracy is kept as the fraction num / den
getAccuracyStats(logs) ==
  LET Count(v) == Cardinality({i \in 1..Len(logs) : logs[i].wasCorrect = v})
      correct == Count("true")
      incorrect == Count("false")
  IN [total |-> Len(logs),
      correct |-> correct,
      incorrect |-> incorrect,
      pending |-> Count(Null),
      accuracy |-> IF correct + incorrect > 0
                   THEN [num |-> correct, den |-> correct + incorrect]
                   ELSE [num |-> 0, den |-> 1]]

\* the messages a call may name: the new ones and the oldest one logged
Targets == NewMessages \cup (IF history = <<>> THEN {} ELSE {history[1].messageTs})

InitFeedback ==
  /\ pc = "fb-ready"
  /\ history \in StoredHistories
  /\ historyFile = history
  /\ corrections = <<>> /\ stats = [total |-> 0] /\ opCount = 0
  /\ options = NoOptions /\ toProcess = <<>> /\ idx = 0 /\ attempts = <<>>
  /\ errorLog = <<>>
  /\ decision = NoDecision /\ ticketUrl = Absent
  /\ botReply = {} /\ skipped = {} /\ searched = <<>> /\ asked = <<>>
  /\ created = <<>> /\ posted = <<>>
  /\ profiles = [u \in Users |-> 0]
  /\ writes = [f \in Files |-> 0]
  /\ fetched = <<>> /\ lastRun = <<>>
  /\ IdlePure /\ IdleEval /\ IdleCompare /\ IdleThreshold /\ IdleTools

\* FeedbackManager.logDecision
LogDecision ==
  /\ opCount < MaxOps
  /\ pc \in {"fb-ready", "fb-stats"}
  /\ \E ts \in NewMessages :
       /\ history' = logDecision(history, ts, LoggedDecision)
       /\ historyFile' = history'
  /\ writes' = [writes EXCEPT !["triage-history"] = @ + 1]
  /\ opCount' = opCount + 1
  /\ pc' = "fb-ready"
  /\ UNCHANGED <<pureVars, runVars, slackVars, linearVars, asked, profiles,
                 evalVars, compareVars, corrections, stats, thresholdVars, toolVars>>

\* FeedbackManager.logCorrection
LogCorrection ==
  /\ opCount < MaxOps
  /\ pc \in {"fb-ready", "fb-stats"}
  /\ \E ts \in Targets :
       /\ corrections' = Append(corrections, ts)
       /\ history' = SetWasCorrect(history, ts, "false")
       /\ IF Found(history, ts)
          THEN /\ historyFile' = history'
               /\ writes' = [writes EXCEPT !["triage-history"] = @ + 1]
          ELSE UNCHANGED <<historyFile, writes>>
  /\ opCount' = opCount + 1
  /\ pc' = "fb-ready"
  /\ UNCHANGED <<pureVars, runVars, slackVars, linearVars, asked, profiles,
                 evalVars, compareVars, stats, thresholdVars, toolVars>>

\* FeedbackManager.markCorrect
MarkCorrect ==
  /\ opCount < MaxOps
  /\ pc \in {"fb-ready", "fb-stats"}
  /\ \E ts \in Targets :
       /\ history' = SetWasCorrect(history, ts, "true")
       /\ IF Found(history, ts)
          THEN /\ historyFile' = history'
               /\ writes' = [writes EXCEPT !["triage-history"] = @ + 1]
          ELSE UNCHANGED <<historyFile, writes>>
  /\ opCount' = opCount + 1
  /\ pc' = "fb-ready"
  /\ UNCHANGED <<pureVars, runVars, slackVars, linearVars, asked, profiles,
                 evalVars, compareVars, corrections, stats, thresholdVars, toolVars>>

\* FeedbackManager.getAccuracyStats
GetAccuracyStats ==
  /\ pc = "fb-ready"
  /\ stats' = getAccuracyStats(history)
  /\ pc' = "fb-stats"
  /\ UNCHANGED <<pureVars, runVars, slackVars, linearVars, asked, feedbackVars,
                 profiles, writes, evalVars, compareVars, corrections, opCount,
                 thresholdVars, toolVars>>

NextFeedback ==
  \/ LogDecision
  \/ LogCorrection
  \/ MarkCorrect
  \/ GetAccuracyStats

SpecFeedback == InitFeedback /\ [][NextFeedback]_vars

(***************************************************************************)
(* meetsConfidenceThreshold called on its own: the copy in index.ts that   *)
(* processBugReport calls and the exported copy in utils.ts that the       *)
(* tests call.  The minimum is the text given to --min-confidence, which   *)
(* commander passes on unchecked.                                          *)
(***************************************************************************)
MinimumTexts ==
  Confidences \cup ObjectPrototype
    \cup {"", "invalid", "urgent", "none", "LOW", "Medium", "critical"}

InitThreshold ==
  /\ pc = "th-input"
  /\ actual \in Confidences
  /\ minimum \in MinimumTexts
  /\ meets = FALSE
  /\ options = NoOptions /\ toProcess = <<>> /\ idx = 0 /\ attempts = <<>>
  /\ errorLog = <<>>
  /\ IdlePure /\ IdleRun /\ IdleEval /\ IdleCompare /\ IdleStats /\ IdleTools

\* index.ts: meetsConfidenceThreshold
MeetsInIndex ==
  /\ pc = "th-input"
  /\ meets' = meetsConfidenceThreshold(actual, minimum)
  /\ pc' = "th-index"
  /\ UNCHANGED <<actual, minimum, compareVars, statsVars, toolVars, pureVars, runVars,
                 slackVars, linearVars, asked, feedbackVars, profiles, writes,
                 evalVars>>

\* utils.ts: meetsConfidenceThreshold
MeetsInUtils ==
  /\ pc = "th-input"
  /\ meets' = meetsConfidenceThreshold(actual, minimum)
  /\ pc' = "th-utils"
  /\ UNCHANGED <<actual, minimum, compareVars, statsVars, toolVars, pureVars, runVars,
                 slackVars, linearVars, asked, feedbackVars, profiles, writes,
                 evalVars>>

NextThreshold ==
  \/ MeetsInIndex
  \/ MeetsInUtils

SpecThreshold == InitThreshold /\ [][NextThreshold]_vars

(***************************************************************************)
(* The evaluation corpus test-data/test-cases.json and the scripts that    *)
(* write it: generate-test-cases, refresh-historical, merge-synthetic and  *)
(* enrich-with-threads.  Each script is one run of its main.               *)
(***************************************************************************)
\* the identifiers of the cases: `hist-${ts}` and the ids of synthetic cases
HistId(ts) == <<"hist", ts>>
SynId(n) == <<"syn", n>>

\* the texts of a message in Slack: as posted, and after it was edited
MessageTexts == {"posted", "edited"}

\* the labels (expected.action) a reviewer gives to a case
Labels == {"new_bug", "not_a_bug"}

\* the case generate-test-cases and refresh-historical create for a message;
\* date is the ISO date of ts, threadReplies is <<>> while the field is
\* absent and <<replies>> when it holds the list replies
NewHistoricalCase(ts, text) ==
  [id |-> HistId(ts), source |-> "historical", message |-> text, date |-> ts,
   threadReplies |-> <<>>, action |-> Null]

\* a case of synthetic-cases.json: it has no date (0 stands for '')
SyntheticCase(n, label) ==
  [id |-> SynId(n), source |-> "synthetic", message |-> "posted", date |-> 0,
   threadReplies |-> <<>>, action |-> label]

\* the corpus files the scripts can find: none, one that is no JSON, or the
\* cases of some messages (newest first), labeled or not, and after them the
\* synthetic cases merged so far
CorpusOf(cases) == [state |-> "ok", cases |-> cases]
UnreadableCorpus == [state |-> "unreadable", cases |-> <<>>]
HistoricalLists(n) ==
  {LET all == [i \in 1..n |-> [NewHistoricalCase(n + 1 - i, "posted")
                                  EXCEPT !.action = label[n + 1 - i]]]
       IsIn(c) == c.id[2] \in present
   IN SelectSeq(all, IsIn) :
     present \in SUBSET (1..n), label \in [1..n -> Labels \cup {Null}]}
CorpusFiles(n) ==
  {NoCorpus, UnreadableCorpus}
    \cup {CorpusOf(hist \o syn) :
            hist \in HistoricalLists(n),
            syn \in {<<>>, <<SyntheticCase(1, "new_bug")>>}}

\* historical-messages.json as export-historical writes it: the latest
\* `limit` messages of the channel
HistoricalMessages(limit, text) ==
  [i \in 1..Len(slice(Channel, limit)) |-> [ts |-> Channel[i].ts, text |-> text]]

\* Array.prototype.findIndex on the ids (0 stands for -1)
findIndex(cases, id) ==
  IF \E i \in DOMAIN cases : cases[i].id = id
  THEN CHOOSE i \in DOMAIN cases :
         cases[i].id = id /\ \A j \in 1..(i - 1) : cases[j].id # id
  ELSE 0

\* generate-test-cases.ts main: the cases written
generateCases(historical, existingCases) ==
  LET caseOf(msg) ==
        IF findIndex(existingCases, HistId(msg.ts)) > 0
        THEN existingCases[findIndex(existingCases, HistId(msg.ts))]
        ELSE NewHistoricalCase(msg.ts, msg.text)
      cases == [i \in DOMAIN historical |-> caseOf(historical[i])]
      IsKeptSynthetic(c) == c.source = "synthetic" /\ findIndex(cases, c.id) = 0
  IN cases \o SelectSeq(existingCases, IsKeptSynthetic)

\* refresh-historical.ts: testFile.cases.sort by date, newest first
RECURSIVE sortNewestFirst(_)
sortNewestFirst(cases) ==
  IF cases = <<>> THEN <<>>
  ELSE LET c == Head(cases)
           rest == sortNewestFirst(Tail(cases))
           IsNewer(x) == x.date > c.date
           IsNotNewer(x) == x.date <= c.date
       IN SelectSeq(rest, IsNewer) \o <<c>> \o SelectSeq(rest, IsNotNewer)

\* refresh-historical.ts main: the cases written
refreshCases(messages, existingCases) ==
  LET IsFor(c, msg) == c.id = HistId(msg.ts)
      updated(c) ==
        IF \E i \in DOMAIN messages : IsFor(c, messages[i])
        THEN [c EXCEPT !.message =
                messages[CHOOSE i \in DOMAIN messages : IsFor(c, messages[i])].text]
        ELSE c
      IsUnknown(msg) == findIndex(existingCases, HistId(msg.ts)) = 0
      unknown == SelectSeq(messages, IsUnknown)
  IN sortNewestFirst(
       [i \in DOMAIN existingCases |-> updated(existingCases[i])]
         \o [i \in DOMAIN unknown |-> NewHistoricalCase(unknown[i].ts, unknown[i].text)])

\* merge-synthetic.ts main: the cases written
RECURSIVE mergeCases(_, _)
mergeCases(cases, synthetic) ==
  IF synthetic = <<>> THEN cases
  ELSE LET synthCase == Head(synthetic)
           existingIndex == findIndex(cases, synthCase.id)
       IN mergeCases(IF existingIndex > 0
                     THEN [cases EXCEPT ![existingIndex] = synthCase]
                     ELSE Append(cases, synthCase),
                     Tail(synthetic))

\* synthetic-cases.json: the cases it holds
SyntheticFiles ==
  {<<>>, <<SyntheticCase(1, "new_bug")>>, <<SyntheticCase(1, "not_a_bug")>>,
   <<SyntheticCase(2, "not_a_bug"), SyntheticCase(1, "new_bug")>>}

InitCorpus ==
  /\ pc = "corpus-ready"
  /\ corpus \in CorpusFiles(MaxMsgs)
  /\ trace = <<>> /\ suggestion = [action |-> Null]
  /\ options = NoOptions /\ toProcess = <<>> /\ idx = 0 /\ attempts = <<>>
  /\ errorLog = <<>>
  /\ IdlePure /\ IdleRun /\ IdleEval /\ IdleCompare /\ IdleStats /\ IdleThreshold

\* what a run of a corpus script leaves alone
corpusFrame ==
  <<suggestion, compareVars, corrections, stats, thresholdVars, pureVars, runVars,
    slackVars, linearVars, asked, feedbackVars, profiles, writes, evalVars>>

\* one run of scripts/generate-test-cases.ts
GenerateTestCases ==
  /\ opCount < MaxOps
  /\ opCount' = opCount + 1
  /\ \/ \* historical-messages.json not found, or test-cases.json is no JSON
        /\ pc' = "generate-failed"
        /\ UNCHANGED corpus
     \/ \E limit \in 0..MaxMsgs, text \in MessageTexts :
          /\ corpus.state # "unreadable"
          /\ corpus' = CorpusOf(generateCases(HistoricalMessages(limit, text),
                                              corpus.cases))
          /\ pc' = "generate-ok"
  /\ UNCHANGED <<trace, corpusFrame>>

\* one run of scripts/refresh-historical.ts
RefreshHistorical ==
  /\ opCount < MaxOps
  /\ opCount' = opCount + 1
  /\ \/ \* conversations.history threw, or test-cases.json is no JSON
        /\ pc' = "refresh-failed"
        /\ UNCHANGED corpus
     \/ \E limit \in 1..MaxMsgs, text \in MessageTexts :
          /\ corpus.state # "unreadable"
          /\ corpus' = CorpusOf(refreshCases(HistoricalMessages(limit, text),
                                             corpus.cases))
          /\ pc' = "refresh-ok"
  /\ UNCHANGED <<trace, corpusFrame>>

\* one run of scripts/merge-synthetic.ts
MergeSynthetic ==
  /\ opCount < MaxOps
  /\ opCount' = opCount + 1
  /\ \/ \* synthetic-cases.json not found, or test-cases.json is no JSON
        /\ pc' = "merge-failed"
        /\ UNCHANGED corpus
     \/ \E synthetic \in SyntheticFiles :
          /\ corpus.state # "unreadable"
          /\ corpus' = CorpusOf(mergeCases(corpus.cases, synthetic))
          /\ pc' = "merge-ok"
  /\ UNCHANGED <<trace, corpusFrame>>

\* enrich-with-threads.ts main: the cases that need enrichment
toEnrich(cases, limit, forceRefresh) ==
  LET Needs(c) ==
        c.source = "historical" /\ (forceRefresh \/ c.threadReplies = <<>>)
  IN IF limit > 0 THEN slice(SelectSeq(cases, Needs), limit)
     ELSE SelectSeq(cases, Needs)

\* what conversations.replies does for a case: it throws, or it returns the
\* thread, whose messages after the first are the replies
ThreadReply(text, isBot) == [text |-> text, isBot |-> isBot]
ReplyOutcomes ==
  {[ok |-> FALSE, replies |-> <<>>], [ok |-> TRUE, replies |-> <<>>],
   [ok |-> TRUE, replies |-> <<ThreadReply(<<"thanks">>, FALSE)>>]}

\* enrich-with-threads.ts main: the loop, as the requests it sends and the
\* sleeps it takes; sleep(100) is the last statement of the try block
RECURSIVE enrichLoop(_, _)
enrichLoop(queue, outcomes) ==
  IF queue = <<>> THEN <<>>
  ELSE LET request == [op |-> "replies", id |-> Head(queue).id]
           sleep == [op |-> "sleep", id |-> Head(queue).id]
       IN (IF Head(outcomes).ok THEN <<request, sleep>> ELSE <<request>>)
            \o enrichLoop(Tail(queue), Tail(outcomes))

\* enrich-with-threads.ts main: testCase.threadReplies = replies
enrichCases(cases, queue, outcomes) ==
  LET enriched(c) ==
        IF findIndex(queue, c.id) > 0 /\ outcomes[findIndex(queue, c.id)].ok
        THEN [c EXCEPT !.threadReplies =
                         <<outcomes[findIndex(queue, c.id)].replies>>]
        ELSE c
  IN [i \in DOMAIN cases |-> enriched(cases[i])]

\* one run of scripts/enrich-with-threads.ts
EnrichWithThreads ==
  /\ opCount < MaxOps
  /\ opCount' = opCount + 1
  /\ \/ \* test-cases.json not found or no JSON, or no SLACK_TOKEN
        /\ pc' = "enrich-failed"
        /\ trace' = <<>>
        /\ UNCHANGED corpus
     \/ \E limit \in 0..MaxMsgs, forceRefresh \in BOOLEAN :
          LET queue == toEnrich(corpus.cases, limit, forceRefresh)
          IN \E outcomes \in [DOMAIN queue -> ReplyOutcomes] :
               /\ corpus.state = "ok"
               /\ trace' = enrichLoop(queue, outcomes)
               /\ corpus' = CorpusOf(enrichCases(corpus.cases, queue, outcomes))
               /\ pc' = "enrich-ok"
  /\ UNCHANGED corpusFrame

NextCorpus ==
  \/ GenerateTestCases
  \/ RefreshHistorical
  \/ MergeSynthetic
  \/ EnrichWithThreads

SpecCorpus == InitCorpus /\ [][NextCorpus]_vars

(***************************************************************************)
(* analyzeThread (scripts/analyze-threads.ts): the label suggested for a   *)
(* case from the replies of its thread.  A text is the sequence of its     *)
(* words; the white space between two words is a blank inside a reply and  *)
(* the '\n' of the join between two replies, and \s+ matches both.         *)
(***************************************************************************)
\* number of replies of a thread
MaxReplies == 3

\* ticket references, as patterns.ticketRef finds them
TicketRefs == {"PLA-12", "APO-7"}

\* the texts of the replies
ReplyTexts ==
  {<<"thanks">>, <<"duplicate">>, <<"see">>, <<"PLA-12">>, <<"APO-7">>,
   <<"created", "ticket">>, <<"wontfix">>, <<"screenshot">>, <<"fixed">>}

\* the threads a case can carry
Threads(n) ==
  UNION {[1..k -> {ThreadReply(text, isBot) :
                     text \in ReplyTexts, isBot \in BOOLEAN}] : k \in 0..n}

\* a historical case as enrich-with-threads leaves it
EnrichedCase(replies) ==
  [NewHistoricalCase(1, "posted") EXCEPT !.threadReplies = <<replies>>]

\* testCase.threadReplies.map((r) => r.text).join('\n')
RECURSIVE allText(_)
allText(replies) ==
  IF replies = <<>> THEN <<>>
  ELSE Head(replies).text \o allText(Tail(replies))

\* pattern.test(allText) for a pattern that is one word
HasWord(text, word) == \E i \in DOMAIN text : text[i] = word

\* pattern.test(allText) for a pattern of two words with \s+ between them
HasPair(text, first, second) ==
  \E i \in 1..(Len(text) - 1) : text[i] \in first /\ text[i + 1] \in second

\* patterns.existingTicket: /duplicate|.../ and /(?:...|see)\s+(?:APO|PLA|...)-\d+/
matchesExistingTicket(text) ==
  HasWord(text, "duplicate") \/ HasPair(text, {"see"}, TicketRefs)

\* patterns.newTicket: /(?:created|...)\s+(?:a\s+)?(?:ticket|...)/ and
\* /(?:APO|PLA|...)-\d+\s+(?:created|opened)/
matchesNewTicket(text) ==
  HasPair(text, {"created"}, {"ticket"}) \/ HasPair(text, TicketRefs, {"created"})

\* patterns.notABug, patterns.needsInfo, patterns.resolved
matchesNotABug(text) == HasWord(text, "wontfix")
matchesNeedsInfo(text) == HasWord(text, "screenshot")
matchesResolved(text) == HasWord(text, "fixed")

\* allText.match(patterns.ticketRef)
ticketRefs(text) ==
  LET IsTicket(word) == word \in TicketRefs IN SelectSeq(text, IsTicket)

\* teamMap[prefix] ?? null
teamMap(ticket) == IF ticket = "PLA-12" THEN "platform" ELSE Null

NoSuggestion == [action |-> Null]
Suggestion(action, confidence, team, tickets) ==
  [action |-> action, confidence |-> confidence, team |-> team,
   ticketRef |-> IF tickets = <<>> THEN Absent ELSE tickets[1]]

needsInfoSuggestedOnAnyMatch(text, humanReplies) == matchesNeedsInfo(text)

\* the condition under which a needs-info match is suggested
needsInfoSuggested(text, humanReplies) ==
  matchesNeedsInfo(text) /\ ~matchesResolved(text) /\ Len(humanReplies) <= 2

analyzeThread(testCase) ==
  IF testCase.threadReplies = <<>> \/ testCase.threadReplies[1] = <<>>
  THEN NoSuggestion
  ELSE LET threadReplies == testCase.threadReplies[1]
           text == allText(threadReplies)
           IsHuman(r) == ~r.isBot
           humanReplies == SelectSeq(threadReplies, IsHuman)
           uniqueTickets == ticketRefs(text)
           certain == IF uniqueTickets # <<>> THEN "high" ELSE "medium"
       IN IF matchesExistingTicket(text)
          THEN Suggestion("existing_ticket", certain, Absent, uniqueTickets)
          ELSE IF matchesNewTicket(text)
          THEN Suggestion("new_bug", certain,
                          IF uniqueTickets # <<>> THEN teamMap(uniqueTickets[1])
                          ELSE Null,
                          uniqueTickets)
          ELSE IF matchesNotABug(text)
          THEN Suggestion("not_a_bug", "medium", Absent, <<>>)
          ELSE IF needsInfoSuggested(text, humanReplies)
          THEN Suggestion("needs_info", "low", Absent, <<>>)
          ELSE IF uniqueTickets # <<>>
          THEN Suggestion("existing_ticket", "low", Absent, uniqueTickets)
          ELSE NoSuggestion

\* the cases analyzeThread is applied to: without threadReplies, or with a
\* thread of up to MaxReplies replies
InitAnalyze ==
  /\ pc = "analyze-input"
  /\ corpus \in {CorpusOf(<<NewHistoricalCase(1, "posted")>>)}
                  \cup {CorpusOf(<<EnrichedCase(replies)>>) :
                          replies \in Threads(MaxReplies)}
  /\ trace = <<>> /\ suggestion = NoSuggestion
  /\ options = NoOptions /\ toProcess = <<>> /\ idx = 0 /\ attempts = <<>>
  /\ errorLog = <<>>
  /\ IdlePure /\ IdleRun /\ IdleEval /\ IdleCompare /\ IdleStats /\ IdleThreshold

\* analyze-threads.ts main: analyzeThread(testCase)
AnalyzeThread ==
  /\ pc = "analyze-input"
  /\ suggestion' = analyzeThread(corpus.cases[1])
  /\ pc' = "analyze-done"
  /\ UNCHANGED <<corpus, trace, opCount, compareVars, corrections, stats,
                 thresholdVars, pureVars, runVars, slackVars, linearVars, asked,
                 feedbackVars, profiles, writes, evalVars>>

NextAnalyze == AnalyzeThread

SpecAnalyze == InitAnalyze /\ [][NextAnalyze]_vars

(***************************************************************************)
(* The report of scripts/evaluate.ts as text, written by generateReport    *)
(* and read back by parseResultsFile of scripts/eval-significance.ts.  A   *)
(* text is a sequence of tokens: a word, a blank, a "|" or a line feed.    *)
(***************************************************************************)
LineFeed == "\n"
Pipe == "|"
Space == " "

\* the ids of the cases evaluated
CaseNames == <<"hist-1", "hist-2", "syn-1", "syn-2">>

\* the notes of a result: expected.notes of the case ('' when it has none,
\* free text otherwise), or `Error: ${err}` for a case whose evaluation
\* threw, the error text being one line or several
ErrorNote == <<"Error:", Space, "Invalid", Space, "action:", Space, "new", LineFeed, "bug">>
NoteTexts ==
  {<<>>, <<"flaky">>, <<"login", Space, Pipe, Space, "signup">>, ErrorNote}

\* a result of the evaluation: of a scored case, or of a case that threw
EvalResult(id, actionMatch, notes) ==
  [id |-> id,
   expected |-> [action |-> IF actionMatch = Null THEN Null ELSE "new_bug",
                 team |-> Null],
   actual |-> [action |-> IF actionMatch = "true" THEN "new_bug" ELSE "needs_info",
               explanation |-> IF notes = ErrorNote THEN notes ELSE <<"text">>],
   actionMatch |-> actionMatch,
   teamMatch |-> Null,
   notes |-> notes]

\* the lists of results, with distinct ids, of up to n cases
ResultLists(n) ==
  UNION {{[i \in 1..k |-> EvalResult(CaseNames[i], m[i], t[i])] :
            m \in [1..k -> {"true", "false", Null}], t \in [1..k -> NoteTexts]} :
         k \in 0..n}

\* generateReport: the two lines that open the results table
TableHead ==
  <<Pipe, Space, "Case ID", Space, Pipe, Space, "Expected", Space, Pipe, Space,
    "Got", Space, Pipe, Space, "Action", Space, Pipe, Space, "Team", Space,
    Pipe, Space, "Notes", Space, Pipe, LineFeed,
    Pipe, "---", "------", Pipe, "----------", Pipe, "-----", Pipe, "--------",
    Pipe, "------", Pipe, "-------", Pipe, LineFeed>>

\* generateReport: the row of a result; with team null and no new ticket
\* teamStr is ''
TableRow(r) ==
  <<Pipe, Space, r.id, Space, Pipe, Space,
    IF r.expected.action = Null THEN "unlabeled" ELSE r.expected.action,
    Space, Pipe, Space, r.actual.action, Space, Pipe, Space,
    actionIcon(r.actionMatch), Space, Pipe, Space, Space, Pipe, Space>>
    \o r.notes \o <<Space, Pipe, LineFeed>>

\* generateReport: the entry of a failure in the failure analysis
FailureEntry(f) ==
  <<"### ", f.id, LineFeed, LineFeed, "**Expected:** ", f.expected.action,
    LineFeed, LineFeed, "**Got:** ", f.actual.action, LineFeed, LineFeed,
    "**Explanation:** ">> \o f.actual.explanation
    \o <<LineFeed, LineFeed, "---", LineFeed, LineFeed>>

RECURSIVE ConcatMap(_, _)
ConcatMap(Op(_), rs) ==
  IF rs = <<>> THEN <<>> ELSE Op(Head(rs)) \o ConcatMap(Op, Tail(rs))

\* generateReport: the report as text
generateReportText(rs) ==
  LET IsFailure(r) == r.actionMatch = "false"
      failures == SelectSeq(rs, IsFailure)
  IN <<"# Evaluation Results", LineFeed, LineFeed, "## Results", LineFeed, LineFeed>>
       \o TableHead
       \o ConcatMap(TableRow, rs)
       \o (IF failures = <<>> THEN <<>>
           ELSE <<LineFeed, "## Failures", LineFeed, LineFeed>>
                  \o ConcatMap(FailureEntry, failures))

\* String.prototype.split on a separator token
RECURSIVE splitOn(_, _)
splitOn(text, sep) ==
  IF \A i \in DOMAIN text : text[i] # sep THEN <<text>>
  ELSE LET at == CHOOSE i \in DOMAIN text :
                   text[i] = sep /\ \A j \in 1..(i - 1) : text[j] # sep
       IN <<SubSeq(text, 1, at - 1)>>
            \o splitOn(SubSeq(text, at + 1, Len(text)), sep)

\* String.prototype.startsWith
startsWith(line, prefix) ==
  Len(line) >= Len(prefix) /\ SubSeq(line, 1, Len(prefix)) = prefix

\* String.prototype.trim on a cell of a line
RECURSIVE trimCell(_)
trimCell(cell) ==
  IF cell = <<>> THEN <<>>
  ELSE IF Head(cell) = Space THEN trimCell(Tail(cell))
  ELSE IF cell[Len(cell)] = Space THEN trimCell(SubSeq(cell, 1, Len(cell) - 1))
  ELSE cell

\* parseResultsFile: line.split('|').map((c) => c.trim()).filter(Boolean)
colsOf(line) ==
  LET cells == splitOn(line, Pipe)
      IsTruthy(c) == c # <<>>
  IN SelectSeq([i \in DOMAIN cells |-> trimCell(cells[i])], IsTruthy)

\* parseResultsFile: the loop over the lines
RECURSIVE ParseLines(_, _, _, _)
ParseLines(lines, i, inTable, map) ==
  IF i > Len(lines) THEN map
  ELSE LET line == lines[i]
           cols == colsOf(line)
       IN IF startsWith(line, <<Pipe, Space, "Case ID", Space, Pipe>>)
          THEN ParseLines(lines, i + 1, TRUE, map)
          ELSE IF startsWith(line, <<Pipe, "---">>) \/ ~inTable
          THEN ParseLines(lines, i + 1, inTable, map)
          ELSE IF ~startsWith(line, <<Pipe>>)
          THEN ParseLines(lines, i + 1, FALSE, map)
          ELSE IF Len(cols) < 4
          THEN ParseLines(lines, i + 1, inTable, map)
          ELSE ParseLines(lines, i + 1, inTable,
                 MapSet(map, cols[1],
                        [caseId |-> cols[1],
                         actionMatch |-> cols[4] = <<actionIcon("true")>>]))

\* parseResultsFile on the text of a report
parseResultsFileText(content) ==
  ParseLines(splitOn(content, LineFeed), 1, FALSE, <<>>)

InitRoundTrip ==
  /\ pc = "report-results"
  /\ results \in ResultLists(MaxCases)
  /\ report = [written |-> FALSE]
  /\ options = NoOptions /\ toProcess = <<>> /\ idx = 0 /\ attempts = <<>>
  /\ errorLog = <<>>
  /\ IdlePure /\ IdleRun /\ IdleCompare /\ IdleStats /\ IdleThreshold /\ IdleTools

\* evaluate.ts main: the report is generated and written to the results file
WriteReportText ==
  /\ pc = "report-results"
  /\ v1File' = generateReportText(results)
  /\ pc' = "report-written"
  /\ UNCHANGED <<v2File, v1Results, v2Results, table, verdict, statsVars,
                 thresholdVars, toolVars, pureVars, runVars, slackVars,
                 linearVars, asked, feedbackVars, profiles, writes, evalVars>>

\* eval-significance.ts main: the results file is read and parsed
ParseReportText ==
  /\ pc = "report-written"
  /\ v1Results' = parseResultsFileText(v1File)
  /\ pc' = "report-parsed"
  /\ UNCHANGED <<v1File, v2File, v2Results, table, verdict, statsVars,
                 thresholdVars, toolVars, pureVars, runVars, slackVars,
                 linearVars, asked, feedbackVars, profiles, writes, evalVars>>

NextRoundTrip ==
  \/ WriteReportText
  \/ ParseReportText

SpecRoundTrip == InitRoundTrip /\ [][NextRoundTrip]_vars

(***************************************************************************)
(* Properties.                                                             *)
(***************************************************************************)
Range(f) == {f[i] : i \in DOMAIN f}

\* the action enum of a triage decision
ActionEnum == {"existing_ticket", "new_bug", "not_a_bug", "needs_info", "defer"}

\* C1: in a run started with --dry-run, createIssue is never called,
\* postThreadReply is never called and .last-run is not written.
C1_DryRunNoIssueNoReplyNoTimestamp ==
  options.dryRun =>
    /\ created = <<>>
    /\ posted = <<>>
    /\ writes["last-run"] = 0

\* a finished dry run in which the oracle chose new_bug for a known team
C1_Witness ==
  /\ pc = "done"
  /\ options.dryRun
  /\ options.minConfidence = "low"
  /\ \E i \in 1..Len(historyFile) :
       /\ historyFile[i].decision.action = "new_bug"
       /\ historyFile[i].decision.newTicket = "platform"

\* C2: during a --dry-run run no write of any kind is made: no issue, no
\* reply, and no state file (.last-run, triage-history, reporter-profiles)
\* is created or changed.
C2_DryRunWritesNothing ==
  options.dryRun =>
    /\ created = <<>>
    /\ posted = <<>>
    /\ \A f \in Files : writes[f] = 0

\* C3: every decision parseResponse returns has a ticketLink iff its action
\* is existing_ticket and a newTicket iff its action is new_bug; a response
\* violating this is rejected.
C3_PayloadDeterminedByAction ==
  (pc = "parse-done" /\ parsed.ok) =>
    /\ parsed.decision.ticketLink # Absent <=> parsed.decision.action = "existing_ticket"
    /\ parsed.decision.newTicket # Absent <=> parsed.decision.action = "new_bug"

\* C4: a new_bug decision of low or medium confidence is never accepted:
\* triageBug returns none (the history file holds the decisions it returned)
\* and createIssue is never called for a decision whose confidence is not high.
C4_NewBugOnlyAtHighConfidence ==
  /\ \A i \in 1..Len(historyFile) :
       historyFile[i].decision.action = "new_bug"
         => historyFile[i].decision.confidence = "high"
  /\ \A i \in 1..Len(created) : created[i].confidence = "high"

\* the identifier of an item of a batch: a message's ts, a case's id
ItemId(x) == IF "ts" \in DOMAIN x THEN x.ts ELSE x.id

LoopPcs == {"profile", "check", "search", "triage", "execute", "reply", "eval-case"}
Finished == pc \in {"done", "eval-done"}

AttemptedInOrder ==
  /\ Len(attempts) <= Len(toProcess)
  /\ \A i \in 1..Len(attempts) : attempts[i] = ItemId(toProcess[i])

\* C5: in the triage loop and in the evaluation loop a failure on one item
\* never aborts the batch: the items selected are attempted once each, in
\* order, and the run reaches its final step with all of them attempted.
C5_BatchNeverAborts ==
  /\ []AttemptedInOrder
  /\ [](pc \in LoopPcs => <>(Finished /\ Len(attempts) = Len(toProcess)))

\* a finished triage run of two messages whose first message failed
C5_Witness ==
  /\ pc = "done"
  /\ Len(toProcess) = 2
  /\ errorLog # <<>>
  /\ errorLog[1].item = toProcess[1].ts
  /\ Len(attempts) = 2

\* C6: for a message hasTriageReply reported as already triaged,
\* processBugReport does nothing further: no tracker search, no oracle call,
\* no decision-log entry, no createIssue, no postThreadReply.
C6_TriagedMessageSkipped ==
  \A ts \in skipped :
    /\ ts \notin Range(searched)
    /\ ts \notin Range(asked)
    /\ \A i \in 1..Len(history) : history[i].messageTs # ts
    /\ \A i \in 1..Len(historyFile) : historyFile[i].messageTs # ts
    /\ \A i \in 1..Len(created) : created[i].ts # ts
    /\ \A i \in 1..Len(posted) : posted[i].ts # ts

\* a finished run that skipped one message and replied to another
C6_Witness ==
  /\ pc = "done"
  /\ skipped # {}
  /\ \E i \in 1..Len(posted) : ~posted[i].threw

\* the lexemes of a response by kind, a JSON value of any kind as "value"
Shape(t) ==
  [i \in 1..Len(t) |->
     IF t[i].k \in {"object", "null", "array"} THEN "value" ELSE t[i].k]

\* the JSON objects among the lexemes of a response
ObjectsOf(t) == {t[i] : i \in {j \in 1..Len(t) : t[j].k = "object"}}

\* the response is not parseable
BrokenWrappings == {"fenced-js", "preamble", "close-only", "trailing-prose"}
NotParseable(t) ==
  Shape(t) \in {<<>>, <<"prose">>} \cup {Shape(Wrap(w, JsonNull)) : w \in BrokenWrappings}

\* the value of the response lacks action, explanation or confidence
LacksRequired(t) ==
  \E o \in ObjectsOf(t) :
    o.action = Absent \/ o.explanation = Absent \/ o.confidence = Absent

\* the action of the response is outside the enum
OutsideEnum(t) == \E o \in ObjectsOf(t) : o.action \notin ActionEnum \cup {Absent}

\* C7: parseResponse fails on every input that is not parseable, lacks
\* action, explanation or confidence, or has an action outside the enum; a
\* result it returns has an action of the enum, an explanation and a
\* confidence.
C7_ParseRejectsMalformed ==
  pc = "parse-done" =>
    /\ (\/ NotParseable(responseText)
        \/ LacksRequired(responseText)
        \/ OutsideEnum(responseText)) => ~parsed.ok
    /\ parsed.ok =>
         /\ parsed.decision.action \in ActionEnum
         /\ parsed.decision.explanation # Absent
         /\ parsed.decision.confidence # Absent

\* a fenced response with an action outside the enum, rejected
C7_Witness ==
  /\ pc = "parse-done"
  /\ responseText = Wrap("fenced-json", Decision("invalid_action", "high", Absent, Absent))
  /\ ~parsed.ok
  /\ parsed.error = "Invalid action"

\* the cleaned tokens: the maximal runs of non-blank characters
TokenStarts(c) ==
  {i \in 1..Len(c) : ~IsSpace(c[i]) /\ (i = 1 \/ IsSpace(c[i - 1]))}
TokenAt(c, i) ==
  SubSeq(c, i, (CHOOSE e \in i..Len(c) :
                  /\ \A k \in i..e : ~IsSpace(c[k])
                  /\ (e = Len(c) \/ IsSpace(c[e + 1]))))

\* the tokens longer than 2 characters that are no stop-words
Eligible(c) ==
  {i \in TokenStarts(c) :
     Len(TokenAt(c, i)) > 2 /\ Str(TokenAt(c, i)) \notin stopWords}

\* the first 8 of them
FirstEight(c) ==
  {i \in Eligible(c) : Cardinality({j \in Eligible(c) : j < i}) < 8}

Min(S) == CHOOSE m \in S : \A x \in S : m <= x

\* the tokens starting at the positions S, in order, single spaces between
RECURSIVE SpacedTokens(_, _)
SpacedTokens(c, S) ==
  IF S = {} THEN <<>>
  ELSE LET m == Min(S)
       IN TokenAt(c, m) \o (IF S = {m} THEN <<>> ELSE <<" ">> \o SpacedTokens(c, S \ {m}))

\* C8: extractKeywords returns the first 8 (at most) cleaned tokens longer
\* than 2 characters that are no stop-words, in their order, all lowercase,
\* joined by single spaces; nothing to keep gives the empty string.
C8_KeywordsAreFirstEightEligible ==
  pc = "kw-done" =>
    /\ keywords = SpacedTokens(cleaned(message), FirstEight(cleaned(message)))
    /\ Cardinality({i \in 1..Len(keywords) : keywords[i] = " "}) < 8
    /\ \A i \in 1..Len(keywords) : keywords[i] \notin UpperChars \cup {"\n"}
    /\ \A i \in TokenStarts(keywords) :
         /\ Len(TokenAt(keywords, i)) > 2
         /\ Str(TokenAt(keywords, i)) \notin stopWords
    /\ Eligible(cleaned(message)) = {} => keywords = <<>>

\* a message with more than 8 eligible tokens, a stop-word in capitals among
\* its words
C8_Witness ==
  /\ pc = "kw-done"
  /\ Cardinality(Eligible(cleaned(message))) > 8
  /\ \E i \in TokenStarts(cleaned(message)) :
       Str(TokenAt(cleaned(message), i)) = "the"
  /\ Cardinality(TokenStarts(keywords)) = 8

\* C9: the denominator of the reported accuracy equals the number of
\* evaluated cases whose expected action is set, whatever the outcomes of
\* the decision function.
C9_DenominatorIsLabeledCases ==
  pc = "eval-done" =>
    report.labeled =
      Cardinality({i \in 1..Len(toProcess) : toProcess[i].expected.action # Null})

\* a result is the synthetic result of an error
SyntheticResult(r, err) ==
  /\ r.actual.action = "needs_info"
  /\ r.actual.confidence = "low"
  /\ r.actual.explanation = "Error: " \o err
  /\ r.actionMatch = "false"

C11_TeamMatchOnlyForNewBugWithTeam ==
  \A i \in 1..Len(results) :
    LET r == results[i]
    IN r.notes = "" =>
         IF r.expected.action # "new_bug" \/ r.expected.team \in {Null, Absent}
         THEN r.teamMatch = Null
         ELSE r.teamMatch = Bool(r.actual.newTicket = r.expected.team)

\* the case ids of a report file, and the outcome it reports for a case
\* (its last row for the case)
IdsOf(file) == {file[i].id : i \in 1..Len(file)}
CommonIds == IdsOf(v1File) \cap IdsOf(v2File)
Max(S) == CHOOSE m \in S : \A x \in S : x <= m
IconOf(file, id) == file[Max({i \in 1..Len(file) : file[i].id = id})].icon
Correct(file, id) == IconOf(file, id) = "check"
NotApplicable(file, id) == IconOf(file, id) = "circle"
TableBuilt == pc \in {"cmp-test", "cmp-done"}

\* C12: a shared case whose actionMatch is not applicable in either report
\* is excluded from the contingency table: the four cells count only the
\* shared cases that both reports scored.
C12_NotApplicableExcluded ==
  TableBuilt =>
    LET Scored == {id \in CommonIds :
                     ~NotApplicable(v1File, id) /\ ~NotApplicable(v2File, id)}
    IN /\ table.a = Cardinality({id \in Scored : Correct(v1File, id) /\ Correct(v2File, id)})
       /\ table.b = Cardinality({id \in Scored : ~Correct(v1File, id) /\ Correct(v2File, id)})
       /\ table.c = Cardinality({id \in Scored : Correct(v1File, id) /\ ~Correct(v2File, id)})
       /\ table.d = Cardinality({id \in Scored : ~Correct(v1File, id) /\ ~Correct(v2File, id)})

FixedBySecond == Cardinality({id \in CommonIds : ~Correct(v1File, id) /\ Correct(v2File, id)})
BrokenBySecond == Cardinality({id \in CommonIds : Correct(v1File, id) /\ ~Correct(v2File, id)})

\* C14: the second report is labelled significantly better exactly when
\* pValue < 0.05 and b > c, significantly worse exactly when pValue < 0.05
\* and c > b, and inconclusive in every other case.
C14_VerdictFollowsSignOfDifference ==
  pc = "cmp-done" =>
    /\ verdict.label = "better" <=> (verdict.pValue = "<0.05" /\ FixedBySecond > BrokenBySecond)
    /\ verdict.label = "worse" <=> (verdict.pValue = "<0.05" /\ BrokenBySecond > FixedBySecond)
    /\ verdict.label = "inconclusive" <=>
         ~(verdict.pValue = "<0.05" /\ FixedBySecond # BrokenBySecond)

\* a significant improvement, with cases both reports got right
C14_Witness ==
  /\ pc = "cmp-done"
  /\ verdict.label = "better"
  /\ table.a > 0

\* C15: mcnemarsTest returns chiSquare = 0 and pValue = 1 when b + c = 0 and
\* chiSquare = (|b - c| - 1)^2 / (b + c) otherwise; for b = c > 0 the
\* statistic is 1 / (2b), and b = c = 5 gives 0.1.
C15_McNemarStatistic ==
  pc = "cmp-done" =>
    LET b == table.b
        c == table.c
        chi == verdict.chiSquare
        diff == IF b >= c THEN b - c ELSE c - b
    IN /\ b + c = 0 => chi.num = 0 /\ verdict.pValue = "1"
       /\ b + c > 0 => chi.num * (b + c) = (diff - 1) * (diff - 1) * chi.den
       /\ (b = c /\ b > 0) => chi.num * 2 * b = chi.den /\ chi.num > 0
       /\ (b = 5 /\ c = 5) => 10 * chi.num = chi.den

\* the test of a table with b = c = 5
C15_Witness ==
  /\ pc = "cmp-done"
  /\ table.b = 5
  /\ table.c = 5

\* C16: swapping the two reports swaps b and c, leaves a, d and chiSquare
\* unchanged and flips the sign of b - c, so that significantly better
\* becomes significantly worse and conversely.
C16_SwapSymmetry ==
  pc = "cmp-done" =>
    LET swapped == ContingencyTable(parseResultsFile(v2File), parseResultsFile(v1File))
        other == Conclude(swapped)
    IN /\ swapped.b = table.c
       /\ swapped.c = table.b
       /\ swapped.a = table.a
       /\ swapped.d = table.d
       /\ swapped.b - swapped.c = -(table.b - table.c)
       /\ other.chiSquare.num * verdict.chiSquare.den
            = verdict.chiSquare.num * other.chiSquare.den
       /\ verdict.label = "better" <=> other.label = "worse"
       /\ verdict.label = "worse" <=> other.label = "better"

\* a significant regression of the second report
C16_Witness ==
  /\ pc = "cmp-done"
  /\ verdict.label = "worse"
  /\ table.d > 0

\* an entry and its later state: equal but for wasCorrect
SameButWasCorrect(e, f) == e.messageTs = f.messageTs /\ e.decision = f.decision

C18_AccuracyStats ==
  pc = "fb-stats" =>
    /\ stats.total = Len(history)
    /\ stats.total = stats.correct + stats.incorrect + stats.pending
    /\ stats.correct = Len(SelectSeq(history, LAMBDA e : e.wasCorrect = "true"))
    /\ stats.incorrect = Len(SelectSeq(history, LAMBDA e : e.wasCorrect = "false"))
    /\ IF stats.correct + stats.incorrect = 0
       THEN stats.accuracy.num = 0
       ELSE stats.accuracy.num * (stats.correct + stats.incorrect)
              = stats.correct * stats.accuracy.den

\* the statistics of a full history whose newest entry was logged and then
\* marked correct
C18_Witness ==
  /\ pc = "fb-stats"
  /\ stats.total = HistoryCap
  /\ history[HistoryCap].messageTs \in NewMessages
  /\ history[HistoryCap].wasCorrect = "true"
  /\ stats.correct > 0 /\ stats.incorrect > 0 /\ stats.pending > 0

\* the rank of a confidence level: low < medium < high
Rank(c) ==
  CASE c = "low" -> 1
    [] c = "medium" -> 2
    [] c = "high" -> 3

Called == pc \in {"th-index", "th-utils"}

\* C19: meetsConfidenceThreshold(actual, minimum) is true exactly when
\* rank(actual) >= rank(minimum) with low < medium < high, a minimum that
\* is not one of the three levels counting as the lowest level, so that
\* every actual confidence is accepted under such a minimum.
C19_ThresholdByRank ==
  Called =>
    meets = (Rank(actual)
               >= (IF minimum \in Confidences THEN Rank(minimum) ELSE Rank("low")))

\* the rank --min-confidence m stands for: a text that is not one of the
\* three levels is the lowest level
RankOfMinimum(m) == IF m \in Confidences THEN Rank(m) ELSE Rank("low")
BelowMinimum(d) == Rank(d.confidence) < RankOfMinimum(options.minConfidence)

\* the decisions the oracle gave for the message with time stamp ts, as
\* logDecision saved them before the threshold was applied
OracleDecisions(ts) ==
  {historyFile[i].decision :
     i \in {j \in 1..Len(historyFile) : historyFile[j].messageTs = ts}}

DeferReply(reply) ==
  /\ reply.action = "defer"
  /\ reply.explanation = DeferText
  /\ reply.ticket = Absent
  /\ reply.humanNote

\* C20: with --min-confidence m, a decision whose confidence is below m is
\* acted on as defer whatever action the oracle chose (no issue is created
\* and the posted reply is the defer reply), and a decision at or above m
\* is acted on with its action unchanged.
C20_BelowThresholdActedOnAsDefer ==
  /\ pc \in {"execute", "reply"} =>
       LET oracle == historyFile[Len(historyFile)].decision
       IN IF BelowMinimum(oracle)
          THEN decision.action = "defer"
          ELSE decision.action = oracle.action
  /\ \A i \in 1..Len(created) :
       \E d \in OracleDecisions(created[i].ts) :
         ~BelowMinimum(d) /\ d.action = "new_bug"
  /\ \A i \in 1..Len(posted) :
       \E d \in OracleDecisions(posted[i].ts) :
         IF BelowMinimum(d)
         THEN DeferReply(posted[i].reply)
         ELSE posted[i].reply.action = d.action

\* the issues created for the message with time stamp ts
IssuesFor(ts) == {i \in 1..Len(created) : created[i].ts = ts /\ ~created[i].threw}

\* C21: across any sequence of non-dry runs over the same channel, runs
\* with an overlapping --since and runs in which a Slack or Linear call
\* fails included, at most one issue is created for a message.
C21_AtMostOneIssuePerMessage ==
  \A ts \in 1..MaxMsgs : Cardinality(IssuesFor(ts)) <= 1

\* the fetched messages a run left unprocessed: cut off by --limit, or
\* failed with an error
LeftUnprocessed ==
  {fetched[i].ts : i \in (Len(toProcess) + 1)..Len(fetched)}
    \cup {errorLog[i].item : i \in 1..Len(errorLog)}

\* C22: after a run, the timestamp saved in .last-run is not later than
\* the timestamp of any fetched message the run left unprocessed, so that
\* the next run without --since fetches that message again.
C22_NoMessageLostBetweenRuns ==
  (pc = "done" /\ lastRun # <<>>) =>
    \A ts \in LeftUnprocessed : lastRun[1] <= ts

\* C27: the history entry logged for a message keeps the decision as the
\* oracle returned it, which is how logDecision first writes it to the
\* file: the entry in memory is that decision, and no later save changes
\* the decision of an entry the file already holds.
C27_LoggedDecisionKeptAsReturned ==
  [][/\ Len(history') > Len(history) =>
          history'[Len(history')].decision = historyFile'[Len(historyFile')].decision
     /\ \A i \in 1..Len(historyFile) :
          i <= Len(historyFile') => historyFile'[i].decision = historyFile[i].decision]_vars

\* the reports of reporter u that processBugReport was called on
ProcessedFrom(u) == {i \in 1..Len(attempts) : User(attempts[i]) = u}

\* C28: after the pipeline has processed k messages from the same
\* reporter, the reporter's profile has reportCount = k.
C28_ReportCountIsReportsProcessed ==
  pc = "done" => \A u \in Users : profiles[u] = Cardinality(ProcessedFrom(u))

\* the ids of the cases of a corpus file
CaseIds(file) == {file.cases[i].id : i \in DOMAIN file.cases}

\* the label of the case with the given id
LabelOf(file, id) == file.cases[findIndex(file.cases, id)].action

\* C24: after any run of generate-test-cases, refresh-historical or
\* merge-synthetic, every case id that was in the corpus before the run is
\* still in it, and the label already set on a historical case is unchanged.
C24_CorpusOnlyGrows ==
  [][pc' \in {"generate-ok", "generate-failed", "refresh-ok", "refresh-failed",
              "merge-ok", "merge-failed"}
       => \A id \in CaseIds(corpus) :
            /\ id \in CaseIds(corpus')
            /\ (id[1] = "hist" /\ LabelOf(corpus, id) # Null)
                  => LabelOf(corpus', id) = LabelOf(corpus, id)]_vars

\* C26: a run of merge-synthetic or refresh-historical that finds
\* test-cases.json missing or unreadable ends in failure and writes no
\* corpus file.
C26_MissingCorpusStopsTheTool ==
  [][(corpus.state # "ok"
        /\ pc' \in {"merge-ok", "merge-failed", "refresh-ok", "refresh-failed"})
       => (pc' \in {"merge-failed", "refresh-failed"} /\ corpus' = corpus)]_vars

\* C23: between every two consecutive conversations.replies requests of a
\* run of enrich-with-threads the loop sleeps, whether the earlier request
\* succeeded or failed.
C23_DelayBetweenRequests ==
  \A i \in 1..(Len(trace) - 1) :
    ~(trace[i].op = "replies" /\ trace[i + 1].op = "replies")

\* the thread of the case analyzeThread was applied to, and its text
AnalyzedThread ==
  IF corpus.cases[1].threadReplies = <<>> THEN <<>>
  ELSE corpus.cases[1].threadReplies[1]
AnalyzedText == allText(AnalyzedThread)
HumanCount == Cardinality({i \in DOMAIN AnalyzedThread : ~AnalyzedThread[i].isBot})

\* the category of highest priority that has a matching pattern in the text
FirstCategory ==
  IF matchesExistingTicket(AnalyzedText) THEN "existing_ticket"
  ELSE IF matchesNewTicket(AnalyzedText) THEN "new_bug"
  ELSE IF matchesNotABug(AnalyzedText) THEN "not_a_bug"
  ELSE IF matchesNeedsInfo(AnalyzedText) THEN "needs_info"
  ELSE Null

\* C25 (as stated): analyzeThread returns no suggestion for a case without
\* thread replies, and otherwise the suggestion of the highest-priority
\* category with a matching pattern, existing-ticket > new-ticket >
\* not-a-bug > needs-info; a needs-info match with no higher-priority match
\* yields needs_info.
C25_FirstCategoryWins ==
  pc = "analyze-done" =>
    IF AnalyzedThread = <<>> THEN suggestion = NoSuggestion
    ELSE FirstCategory # Null => suggestion.action = FirstCategory

\* C25 (amended): as above, except that a needs-info match with no
\* higher-priority match yields needs_info only when no resolution pattern
\* matches and the thread has at most two human replies; when no category
\* yields a suggestion the result is existing_ticket with low confidence if
\* the text references a ticket, and no suggestion otherwise.
C25_FirstCategoryWinsUnlessResolved ==
  pc = "analyze-done" =>
    IF AnalyzedThread = <<>> THEN suggestion = NoSuggestion
    ELSE IF FirstCategory \in {"existing_ticket", "new_bug", "not_a_bug"}
    THEN suggestion.action = FirstCategory
    ELSE IF /\ FirstCategory = "needs_info"
            /\ ~matchesResolved(AnalyzedText)
            /\ HumanCount <= 2
    THEN suggestion.action = "needs_info" /\ suggestion.confidence = "low"
    ELSE IF \E i \in DOMAIN AnalyzedText : AnalyzedText[i] \in TicketRefs
    THEN suggestion.action = "existing_ticket" /\ suggestion.confidence = "low"
    ELSE suggestion = NoSuggestion

\* a thread that asks for a screenshot and reports the fix: nothing is suggested
C25_Witness ==
  /\ pc = "analyze-done"
  /\ FirstCategory = "needs_info"
  /\ matchesResolved(AnalyzedText)
  /\ suggestion = NoSuggestion

\* C29: parsing the report generateReport writes for results with distinct
\* ids yields exactly the ids of the results, each with actionMatch true
\* exactly when the result's actionMatch is true, whatever the notes and the
\* error texts.
C29_ReportRoundTrip ==
  pc = "report-parsed" =>
    /\ {v1Results[i].caseId : i \in DOMAIN v1Results}
         = {<<results[i].id>> : i \in DOMAIN results}
    /\ \A i \in DOMAIN v1Results, j \in DOMAIN results :
         v1Results[i].caseId = <<results[j].id>>
           => (v1Results[i].actionMatch <=> results[j].actionMatch = "true")
====
